---- MODULE Spec2Model ----
(***************************************************************************)
(* A model of fractyl's writer operations: the repository lock             *)
(* (src/utils/lock.c), the object store (src/core/objects.c), the          *)
(* stat-only scanner (src/utils/parallel_scan.c) and the snapshot,         *)
(* restore and delete commands (src/commands/*.c).                         *)
(*                                                                         *)
(* Every command invocation is an operating-system process of its own.     *)
(* A slot of Procs runs one command at a time; each step of a command is   *)
(* one access to the repository's files together with the local code that  *)
(* follows it, so that the steps of concurrent commands interleave the way *)
(* the kernel lets them.                                                   *)
(***************************************************************************)
EXTENDS Integers, Sequences, FiniteSets, TLC

\* ------------------------------------------------------------------ bounds

Procs == {"p1", "p2"}          \* process slots that can run commands at once
Paths == {"a"}                 \* working-tree paths
Contents == {"x", "y"}         \* complete file bodies a user writes
Stats == {0, 1}                \* stat signatures (mtime, size, inode, mode)

\* command invocations in one behaviour (each gets a fresh process id)
MaxCmds == 3
\* snapshot commands in one behaviour of concurrent writers
MaxWriters == 2
\* polls of wait_acquire before it gives up (timeout_seconds * 10 in the code)
MaxAttempts == 1
\* injected I/O failures (fopen, fwrite, mkdir failing) in one behaviour
MaxFaults == 1
\* crashes (process killed between two steps) in one behaviour
MaxCrashes == 1
\* user edits of the working tree in one behaviour
MaxEdits == 2

\* ------------------------------------------------------------- data model

\* A file body that is a strict prefix of what was meant to be written.
Partial == "partial"
Bodies == Contents \cup {Partial}

\* What the working tree has at a path: whether a regular file is there, its
\* bytes and stat signature, whether the directory the path lies in exists,
\* whether the .gitignore rules in force match the path, and whether the
\* directory the path lies in holds a .git entry (file or directory).
NoFile ==
    [data |-> "", st |-> 0, present |-> FALSE, dir |-> TRUE, ignored |-> FALSE,
     git |-> FALSE]
File(d, s) ==
    [data |-> d, st |-> s, present |-> TRUE, dir |-> TRUE, ignored |-> FALSE,
     git |-> FALSE]

\* A file body of more than 1 GiB.
Huge == "huge"

\* The path f after a file with bytes d and stat signature s was written there
\* (its directory exists), and after the file was unlinked.
Written(f, d, s) == [f EXCEPT !.data = d, !.st = s, !.present = TRUE]
Unlinked(f) == [f EXCEPT !.data = "", !.st = 0, !.present = FALSE]

\* Bytes of an object: a file body, a serialized index, or a truncated file.
Blob(d) == [kind |-> "blob", data |-> d, entries |-> <<>>]
IndexBlob(ix) == [kind |-> "index", data |-> "", entries |-> ix]
Truncated == [kind |-> "trunc", data |-> "", entries |-> <<>>]

\* SHA-256, taken to be collision free: the digest determines the bytes.
hash_data(bytes) == [sha256 |-> bytes]

\* The digest hash_file computes for a working-tree file.
hash_file(f) == hash_data(Blob(f.data))

\* The body a restore writes from the bytes of an object.
BodyOf(bytes) == IF bytes.kind = "blob" THEN bytes.data ELSE Partial

\* An index entry (index_entry_t): path, 32-byte digest and the stat fields.
Entry(path, hash, st) == [path |-> path, hash |-> hash, st |-> st]

\* index_find_entry: the first entry of ix with that path (0: none).
index_find_entry(ix, path) ==
    IF \E i \in 1..Len(ix) : ix[i].path = path
    THEN CHOOSE i \in 1..Len(ix) :
             /\ ix[i].path = path
             /\ \A j \in 1..(i - 1) : ix[j].path # path
    ELSE 0

\* A snapshot record file (snapshot_t as json_save_snapshot writes it);
\* parent 0 is JSON null. A file json_load_snapshot rejects has ok = FALSE.
NoHash == hash_data(Truncated)
Record(id, parent, ts, ih) ==
    [ok |-> TRUE, id |-> id, parent |-> parent, timestamp |-> ts, index_hash |-> ih]
BadRecord == [ok |-> FALSE, id |-> 0, parent |-> 0, timestamp |-> 0, index_hash |-> NoHash]

\* The lock file: the inode (named by the pid that created it) and the pid
\* written in it (0: nothing written yet). ino 0: no lock file.
NoLock == [ino |-> 0, pid |-> 0]

\* No lock file, and none can be made: open(O_CREAT | O_EXCL) fails with an
\* errno other than EEXIST (the repository directory is not writable).
Unwritable == [ino |-> -1, pid |-> 0]

\* index_add_entry_direct is declared in src/core/index.h:22 and called by the
\* scanner; its definition is not among the sources. It is taken to append
\* the entry without a duplicate check, as its callers' comments say.
index_add_entry_direct(ix, e) == Append(ix, e)

\* ------------------------------------------------------------------ state

VARIABLES
    tree,        \* working tree: path -> file
    objects,     \* object store: digest -> bytes of the object file
    snapshots,   \* snapshot record files of the branch: id -> record
    CURRENT,     \* the branch's CURRENT file: 0 no file, -1 empty, else an id
    liveIndex,   \* .fractyl/index, the live index file
    cache,       \* cache/index_<branch>.bin, the stat cache
    lockFile,    \* fractyl.lock
    clock,       \* time(NULL), in seconds
    nextPid,     \* the pid the next process gets
    nextId,      \* the snapshot id uuid_generate gives next
    faults,      \* I/O failures injected so far
    crashes,     \* processes killed so far
    edits,       \* user edits so far
    proc,        \* per slot: the running command's locals and position
    HEAD,        \* the git branch checked out (<<>>: not a git repository)
    refs,        \* the snapshot directories and stat caches not in use
    origin,      \* history: the branch each record of refs was committed on
    pidFile,     \* daemon.pid: the pid written in it (0: no file)
    daemons,     \* the daemon processes: pid -> position and shutdown flag
    pool,        \* the thread pool of scan_directory_parallel
    build        \* how the program was compiled: with libuuid or without

disk == <<tree, objects, snapshots, CURRENT, liveIndex, cache, lockFile>>
counters == <<clock, nextPid, nextId, faults, crashes, edits>>

\* What the commands of one branch of a repository without a daemon, scanning
\* without the thread pool, leave alone.
rest == <<HEAD, refs, origin, pidFile, daemons, pool, build>>
vars == <<disk, counters, proc, rest>>

NoStats == [path \in Paths |-> -1]

\* A slot with no process in it. wlog lists the kinds of file the commit in
\* progress has written, in order.
IdleProc ==
    [pc |-> "idle", pid |-> 0, cmd |-> "none", caller |-> "main",
     attempts |-> 0, target |-> 0, target_hash |-> NoHash,
     current_snapshot_id |-> 0, has_prev |-> FALSE, prev |-> <<>>,
     new_index |-> <<>>, bidx |-> <<>>, stats |-> NoStats, i |-> 0, seen |-> {},
     os_path |-> "", os_key |-> NoHash, os_ret |-> "",
     id |-> 0, parent |-> 0, ts |-> 0, index_hash |-> NoHash,
     ret |-> 0, wrote_rec |-> FALSE, wrote_cur |-> FALSE, wlog |-> <<>>,
     input |-> <<>>, opened |-> TRUE, result |-> "", result_id |-> <<>>]

\* No directory of another branch, no stat cache of another branch.
NoRefs == [heads |-> <<>>, caches |-> <<>>]

\* No thread pool: scan_directory_parallel is not running.
NoPool == [queue |-> <<>>]

Init ==
    /\ tree = [path \in Paths |-> NoFile]
    /\ objects = <<>>
    /\ snapshots = <<>>
    /\ CURRENT = 0
    /\ liveIndex = <<>>
    /\ cache = <<>>
    /\ lockFile = NoLock
    /\ clock = 1
    /\ nextPid = 1
    /\ nextId = 1
    /\ faults = 0
    /\ crashes = 0
    /\ edits = 0
    /\ HEAD = <<>>
    /\ refs = NoRefs
    /\ origin = <<>>
    /\ pidFile = 0
    /\ daemons = <<>>
    /\ pool = NoPool
    /\ build = "uuid"
    /\ proc = [p \in Procs |-> IdleProc]

\* ------------------------------------------------------------ small helpers

Goto(p, pc) == proc' = [proc EXCEPT ![p].pc = pc]

\* unlink of the file named k in the directory f.
Remove(f, k) == [x \in DOMAIN f \ {k} |-> f[x]]

\* One more event in a write log, repeated kinds folded.
Logged(lg, kind) ==
    IF Len(lg) > 0 /\ lg[Len(lg)] = kind THEN lg ELSE Append(lg, kind)

\* An injected I/O failure is available, and is used.
CanFail == faults < MaxFaults
Fail == faults' = faults + 1 /\ UNCHANGED <<rest, clock, nextPid, nextId, crashes, edits>>

\* A command ends: the process exits.
Exit(p) == proc' = [proc EXCEPT ![p] = IdleProc]

\* ------------------------------------------------------- lock (lock.c)

\* is_process_running: kill(pid, 0) finds a process with that pid.
is_process_running(pid) ==
    /\ pid > 0
    /\ \E q \in Procs : proc[q].pc # "idle" /\ proc[q].pid = pid

\* read_lock_pid: the pid fscanf reads, 0 when there is no file or no number.
read_lock_pid == IF lockFile.ino = 0 THEN 0 ELSE lockFile.pid

\* fractyl_lock_check: 1 when the file names a running process, 0 otherwise.
fractyl_lock_check ==
    IF lockFile.ino # 0 /\ read_lock_pid > 0 /\ is_process_running(read_lock_pid)
    THEN 1 ELSE 0

\* The positions of cmd_snapshot between fractyl_lock_wait_acquire returning 0
\* (snapshot.c:331) and its call of fractyl_lock_release.
HeldPcs ==
    {"scan_begin", "os_hash", "os_open", "os_write", "scan_walk",
     "save_index", "new_snapshot", "write_record", "cur_open", "cur_write"}

\* The process in slot p holds the lock as far as it knows.
Holding(p) == proc[p].pc \in HeldPcs

\* fractyl_lock_acquire, line 50: open(O_CREAT | O_EXCL). When it fails with
\* an errno other than EEXIST the function returns -1 (lines 84-87).
lock_open(p) ==
    /\ proc[p].pc = "lk_open"
    /\ IF lockFile = Unwritable
       THEN /\ Goto(p, "lk_check")
            /\ UNCHANGED lockFile
       ELSE IF lockFile.ino = 0
       THEN /\ lockFile' = [ino |-> proc[p].pid, pid |-> 0]
            /\ Goto(p, "lk_write")
       ELSE /\ Goto(p, "lk_read")
            /\ UNCHANGED lockFile
    /\ UNCHANGED <<tree, objects, snapshots, CURRENT, liveIndex, cache, counters, rest>>

\* fractyl_lock_acquire, lines 53-59 and 76-79: dprintf of the pid to the
\* descriptor opened, which is the file created and not whatever file has the
\* name by now; then fractyl_lock_wait_acquire returns 0.
lock_write(p) ==
    /\ proc[p].pc = "lk_write"
    /\ lockFile' = IF lockFile.ino = proc[p].pid
                   THEN [lockFile EXCEPT !.pid = proc[p].pid]
                   ELSE lockFile
    /\ proc' = [proc EXCEPT ![p].pc = "scan_begin", ![p].attempts = 0]
    /\ UNCHANGED <<tree, objects, snapshots, CURRENT, liveIndex, cache, counters, rest>>

\* fractyl_lock_acquire, lines 63-68: EEXIST, read the pid and probe it.
lock_read(p) ==
    /\ proc[p].pc = "lk_read"
    /\ IF read_lock_pid > 0 /\ is_process_running(read_lock_pid)
       THEN Goto(p, "lk_check")
       ELSE Goto(p, "lk_unlink")
    /\ UNCHANGED <<disk, counters, rest>>

\* A stale lock that is reported and left in place, which C28 excludes.
lock_unlink_kept(p) ==
    /\ proc[p].pc = "lk_unlink"
    /\ Goto(p, "lk_retry")
    /\ UNCHANGED <<disk, counters, rest>>

\* fractyl_lock_acquire, line 71: unlink of the lock taken to be stale.
lock_unlink(p) ==
    /\ proc[p].pc = "lk_unlink"
    /\ lockFile' = NoLock
    /\ Goto(p, "lk_retry")
    /\ UNCHANGED <<tree, objects, snapshots, CURRENT, liveIndex, cache, counters, rest>>

\* fractyl_lock_acquire, line 74: the one retry of open(O_CREAT | O_EXCL).
lock_retry(p) ==
    /\ proc[p].pc = "lk_retry"
    /\ IF lockFile.ino = 0
       THEN /\ lockFile' = [ino |-> proc[p].pid, pid |-> 0]
            /\ Goto(p, "lk_write")
       ELSE /\ Goto(p, "lk_check")
            /\ UNCHANGED lockFile
    /\ UNCHANGED <<tree, objects, snapshots, CURRENT, liveIndex, cache, counters, rest>>

\* fractyl_lock_wait_acquire, lines 159-177, after a failed acquire: try again
\* at once when the lock looks free, else sleep, count the attempt, and give up
\* when the attempts are used; cmd_snapshot then returns 1 (snapshot.c:331-335).
lock_check(p) ==
    /\ proc[p].pc = "lk_check"
    /\ IF fractyl_lock_check <= 0
       THEN Goto(p, "lk_open")
       ELSE IF proc[p].attempts + 1 < MaxAttempts
       THEN proc' = [proc EXCEPT ![p].pc = "lk_open",
                                 ![p].attempts = proc[p].attempts + 1]
       ELSE proc' = [proc EXCEPT ![p].pc = "return", ![p].ret = 1]
    /\ UNCHANGED <<disk, counters, rest>>

\* A return with no call of fractyl_lock_release, which C30 excludes.
Release_skipped(pr, ret) ==
    [IdleProc EXCEPT !.pc = "return", !.pid = pr.pid, !.cmd = pr.cmd,
                     !.caller = pr.caller, !.target = pr.target,
                     !.target_hash = pr.target_hash, !.id = pr.id,
                     !.wrote_rec = pr.wrote_rec, !.wrote_cur = pr.wrote_cur,
                     !.wlog = pr.wlog, !.ret = ret]

\* cmd_snapshot frees its indexes and calls fractyl_lock_release on its way to
\* returning ret.
Release(pr, ret) ==
    [IdleProc EXCEPT !.pc = "rl_read", !.pid = pr.pid, !.cmd = pr.cmd,
                     !.caller = pr.caller, !.target = pr.target,
                     !.target_hash = pr.target_hash, !.id = pr.id,
                     !.wrote_rec = pr.wrote_rec, !.wrote_cur = pr.wrote_cur,
                     !.wlog = pr.wlog, !.ret = ret]

\* fractyl_lock_release, lines 94-102: close, read the pid in the file.
release_read(p) ==
    /\ proc[p].pc = "rl_read"
    /\ IF read_lock_pid = proc[p].pid
       THEN Goto(p, "rl_unlink")
       ELSE Goto(p, "return")
    /\ UNCHANGED <<disk, counters, rest>>

\* fractyl_lock_release, line 103: unlink of the lock file.
release_unlink(p) ==
    /\ proc[p].pc = "rl_unlink"
    /\ lockFile' = NoLock
    /\ Goto(p, "return")
    /\ UNCHANGED <<tree, objects, snapshots, CURRENT, liveIndex, cache, counters, rest>>

\* cmd_snapshot's return statement: to the shell (the process exits), to
\* cmd_restore, which called it for the safety snapshot (restore.c:309), or to
\* the daemon's loop (daemon_standalone.c:115), which sleeps until the next.
snapshot_return(p) ==
    /\ proc[p].pc = "return"
    /\ proc' = [proc EXCEPT ![p] =
                  IF proc[p].caller = "restore"
                  THEN [IdleProc EXCEPT !.pc = "rs_load", !.pid = proc[p].pid,
                                        !.cmd = proc[p].cmd, !.target = proc[p].target,
                                        !.target_hash = proc[p].target_hash]
                  ELSE IF proc[p].caller = "daemon"
                  THEN [IdleProc EXCEPT !.pc = "sleep", !.pid = proc[p].pid,
                                        !.cmd = proc[p].cmd, !.caller = "daemon"]
                  ELSE IdleProc]
    /\ UNCHANGED <<disk, counters, rest>>

\* ----------------------------------------------------- reads of the commit

\* get_current_snapshot_id (snapshot.c:72-100): the id in CURRENT, 0 (NULL)
\* when the file is absent or fgets reads nothing.
get_current_snapshot_id == IF CURRENT > 0 THEN CURRENT ELSE 0

\* json_load_snapshot succeeds on the record file of id.
Loadable(id) == id \in DOMAIN snapshots /\ snapshots[id].ok

\* load_snapshot_index (snapshot.c:273-305): object_load, then index_load of the
\* bytes, which rejects a file that is not a whole serialized index.
IndexLoads(ih) == ih \in DOMAIN objects /\ objects[ih].kind = "index"

\* find_latest_snapshot (snapshot.c:29-69): the records readdir can return
\* first among those with the greatest timestamp (strict >, so the first
\* enumerated of a tie stays); 0 (NULL) when no record loads.
LatestSnapshots ==
    {id \in DOMAIN snapshots :
        /\ snapshots[id].ok
        /\ snapshots[id].timestamp > 0
        /\ \A o \in DOMAIN snapshots :
               snapshots[o].ok => snapshots[o].timestamp <= snapshots[id].timestamp}

find_latest_snapshot == IF LatestSnapshots = {} THEN {0} ELSE LatestSnapshots

\* The lookup of rel_path in prev_hash_table (parallel_scan.c:1157-1216):
\* chains are built by insertion at the head, so the last entry of the
\* previous index with that path is the one found (0: none).
prev_lookup(prev, path) ==
    IF \E k \in 1..Len(prev) : prev[k].path = path
    THEN CHOOSE k \in 1..Len(prev) :
             /\ prev[k].path = path
             /\ \A j \in (k + 1)..Len(prev) : prev[j].path # path
    ELSE 0

\* A lookup in the stat cache that finds nothing: the new-file walk then takes
\* every file for a new one, which C20 excludes.
binary_index_find_entry_miss(bidx, path) == 0

\* binary_index_find_entry (binary_index.c:321-342) on the in-memory cache.
binary_index_find_entry(bidx, path) ==
    IF \E k \in 1..Len(bidx) : bidx[k].path = path
    THEN CHOOSE k \in 1..Len(bidx) : bidx[k].path = path
    ELSE 0

\* An entry of the stat cache (binary_entry_t).
CacheEntry(path, st) == [path |-> path, st |-> st]

\* binary_index_update_entry (binary_index.c:345-421): in place, or appended.
binary_index_update_entry(bidx, path, st) ==
    LET k == binary_index_find_entry(bidx, path) IN
    IF k # 0 THEN [bidx EXCEPT ![k] = CacheEntry(path, st)]
    ELSE Append(bidx, CacheEntry(path, st))

\* lstat of path as the scanner sees it: the stat signature, -1 when the path
\* is not a regular file.
lstat(path) == IF tree[path].present THEN tree[path].st ELSE -1

\* The order-sensitive comparison of snapshot.c:420-438. The loop runs over
\* the positions in order while fewer than MaxReported changes are counted; a
\* position whose digests differ counts one change, and the first position
\* whose paths differ (reordered) ends the loop with -1.
MaxReported == 10
DirectCompare(new, prev) ==
    LET reordered == {i \in 1..Len(new) : new[i].path # prev[i].path}
        first == IF reordered = {} THEN Len(new) + 1
                 ELSE CHOOSE i \in reordered : \A j \in reordered : i <= j
        modified == Cardinality({i \in 1..(first - 1) : new[i].hash # prev[i].hash})
    IN IF modified >= MaxReported THEN MaxReported
       ELSE IF first <= Len(new) THEN -1
       ELSE modified

\* The sampling fallback of snapshot.c:441-474: every step-th entry of the new
\* index, from the first, is looked up in the previous one by path, and
\* counts one change when it is missing there or has another digest; the loop
\* ends when MaxReported changes are counted.
SampleSize == 1000
SampleCompare(new, prev, step) ==
    LET sampled == {i \in 1..Len(new) : (i - 1) % step = 0}
        changed == {i \in sampled :
                       LET k == index_find_entry(prev, new[i].path) IN
                       k = 0 \/ new[i].hash # prev[k].hash}
    IN IF Cardinality(changed) >= MaxReported THEN MaxReported
       ELSE Cardinality(changed)

\* A change detection that only counts the entries of the new index, as the
\* code does when there is no previous index: C12 excludes it.
ChangesDetected_count_only(has_prev, prev, new) == Len(new)

\* changes_detected of cmd_snapshot (snapshot.c:403-475).
ChangesDetected(has_prev, prev, new) ==
    IF ~has_prev THEN Len(new)
    ELSE IF Len(new) # Len(prev) THEN 1
    ELSE LET d == DirectCompare(new, prev) IN
         IF d # -1 THEN d
         ELSE LET size == IF Len(new) < SampleSize THEN Len(new) ELSE SampleSize
                  q == Len(new) \div size
                  step == IF q < 1 THEN 1 ELSE q
              IN SampleCompare(new, prev, step)

\* --------------------------- scanner (parallel_scan.c:1054-1320, 923-1050)

\* scan_directory_stat_only, lines 1188-1236, from cached path number pr.i: a
\* path that is gone is dropped; an unchanged one with an entry in the
\* previous index reuses that entry; the first other one is handed to
\* object_store_file. After the last path the tree is walked for new files.
RECURSIVE scan_stat(_)
scan_stat(pr) ==
    IF pr.i > Len(pr.bidx)
    THEN [pr EXCEPT !.pc = "scan_walk", !.seen = {}]
    ELSE LET path == pr.bidx[pr.i].path
             k == prev_lookup(pr.prev, path)
         IN IF pr.stats[path] = -1
            THEN scan_stat([pr EXCEPT !.i = pr.i + 1])
            ELSE IF pr.bidx[pr.i].st = pr.stats[path] /\ pr.has_prev /\ k # 0
            THEN scan_stat([pr EXCEPT
                              !.new_index = index_add_entry_direct(pr.new_index, pr.prev[k]),
                              !.i = pr.i + 1])
            ELSE [pr EXCEPT !.pc = "os_hash", !.os_path = path, !.os_ret = "scan_add"]

\* scan_directory_stat_only, lines 1238-1258: the stored file's entry joins
\* the new index and the in-memory stat cache.
scan_add(pr) ==
    [pr EXCEPT
       !.new_index = index_add_entry_direct(pr.new_index,
                        Entry(pr.os_path, pr.os_key, pr.stats[pr.os_path])),
       !.bidx = binary_index_update_entry(pr.bidx, pr.os_path, pr.stats[pr.os_path]),
       !.i = pr.i + 1]

\* traverse_for_new_files, lines 976-998: the new file's entry joins the new
\* index and the in-memory stat cache.
walk_add(pr) ==
    [pr EXCEPT
       !.pc = "scan_walk",
       !.new_index = index_add_entry_direct(pr.new_index,
                        Entry(pr.os_path, pr.os_key, pr.stats[pr.os_path])),
       !.bidx = binary_index_update_entry(pr.bidx, pr.os_path, pr.stats[pr.os_path])]

\* The caller of object_store_file goes on after it returned FRACTYL_OK with
\* the digest key: the scanner loops add the entry, cmd_snapshot keeps the
\* digest as snapshot.index_hash (snapshot.c:589).
Stored(pr, key) ==
    LET r == [pr EXCEPT !.os_key = key] IN
    IF pr.os_ret = "scan_add" THEN scan_stat(scan_add(r))
    ELSE IF pr.os_ret = "walk_add" THEN walk_add(r)
    ELSE [r EXCEPT !.pc = "write_record", !.index_hash = key]

\* The caller goes on after object_store_file failed: the scanner loops skip
\* the file (parallel_scan.c:1010, 1259), cmd_snapshot releases the lock and
\* returns 1 (snapshot.c:575-587).
StoreFailed(pr) ==
    IF pr.os_ret = "scan_add" THEN scan_stat([pr EXCEPT !.i = pr.i + 1])
    ELSE IF pr.os_ret = "walk_add" THEN [pr EXCEPT !.pc = "scan_walk"]
    ELSE Release(pr, 1)

\* ------------------------------------------- branches (git.c, paths.c)

\* Branch names are sequences of characters. The characters
\* git_get_current_branch replaces by '-' (git.c:103-109).
Unsafe == {"/", "\\", ":", "*", "?", "\"", "<", ">", "|"}

\* git_get_current_branch (git.c:51-112) for the branch name git prints: the
\* name with every unsafe character replaced.
git_get_current_branch(name) ==
    [i \in 1..Len(name) |-> IF name[i] \in Unsafe THEN "-" ELSE name[i]]

\* paths_get_current_branch (paths.c:91-96): NULL (<<>>) outside git.
paths_get_current_branch ==
    IF HEAD = <<>> THEN <<>> ELSE git_get_current_branch(HEAD)

\* paths_get_snapshots_dir (paths.c:11-26), as the components of the path
\* below .fractyl. paths_get_current_file (28-45) names CURRENT next to it.
paths_get_snapshots_dir(branch) ==
    IF Len(branch) > 0 THEN <<"refs", "heads", branch, "snapshots">>
    ELSE <<"snapshots">>

\* branch_name of cmd_snapshot (snapshot.c:341), which names the stat cache
\* index_<branch>.bin (binary_index.c:125).
branch_name(branch) == IF branch = <<>> THEN <<"m", "a", "i", "n">> ELSE branch

\* The snapshots directory the commands of the branch checked out work in.
ActiveDir == paths_get_snapshots_dir(paths_get_current_branch)

\* A snapshots directory with the CURRENT file next to it; one that was
\* never made.
RefDir(recs, cur) == [snapshots |-> recs, CURRENT |-> cur]
NoDir == RefDir(<<>>, 0)

\* The directory at path dir: the one in use, or one of refs.
Dir(dir) ==
    IF dir = ActiveDir THEN RefDir(snapshots, CURRENT)
    ELSE IF dir \in DOMAIN refs.heads THEN refs.heads[dir]
    ELSE NoDir

\* paths_migrate_legacy_snapshots (paths.c:99-143), called by cmd_snapshot in
\* a git repository (snapshot.c:344-346): when .fractyl/snapshots exists it is
\* renamed to the branch's directory, which succeeds when that directory is
\* missing or empty, and the legacy CURRENT, when there is one, is renamed
\* over the branch's. The result is the branch's directory and refs.
paths_migrate_legacy_snapshots ==
    LET legacy == paths_get_snapshots_dir(<<>>) IN
    IF /\ paths_get_current_branch # <<>>
       /\ legacy \in DOMAIN refs.heads
       /\ snapshots = <<>>
    THEN [snapshots |-> refs.heads[legacy].snapshots,
          CURRENT |-> IF refs.heads[legacy].CURRENT # 0
                      THEN refs.heads[legacy].CURRENT ELSE CURRENT,
          refs |-> [refs EXCEPT !.heads = Remove(refs.heads, legacy)]]
    ELSE [snapshots |-> snapshots, CURRENT |-> CURRENT, refs |-> refs]

\* cmd_snapshot, lines 338-380, and scan_directory_stat_only, lines 1066-1143:
\* the branch is asked of git and legacy snapshots are migrated to it; the
\* previous index is loaded through CURRENT, the record it names and that
\* record's index object; binary_index_load reads the stat cache and every
\* cached path is lstat-ed. The loop over the cached paths follows.
scan_begin(p) ==
    /\ proc[p].pc = "scan_begin"
    /\ LET migrated == paths_migrate_legacy_snapshots IN
       /\ snapshots' = migrated.snapshots
       /\ CURRENT' = migrated.CURRENT
       /\ refs' = migrated.refs
    /\ LET cur == get_current_snapshot_id'
           ok == /\ cur # 0
                 /\ cur \in DOMAIN snapshots' /\ snapshots'[cur].ok
                 /\ IndexLoads(snapshots'[cur].index_hash)
       IN proc' = [proc EXCEPT ![p] =
                     scan_stat([proc[p] EXCEPT
                        !.current_snapshot_id = cur,
                        !.has_prev = ok,
                        !.prev = IF ok THEN objects[snapshots'[cur].index_hash].entries
                                 ELSE <<>>,
                        !.bidx = cache,
                        !.stats = [path \in DOMAIN tree |-> lstat(path)],
                        !.i = 1,
                        !.new_index = <<>>])]
    /\ UNCHANGED <<tree, objects, liveIndex, cache, lockFile, counters,
                   HEAD, origin, pidFile, daemons, pool, build>>

\* should_ignore_path is called by the walk (parallel_scan.c:958) and by the
\* worker threads (258); its definition is not among the sources. It is taken
\* to answer yes for a path the .gitignore rules match and for a path in a
\* directory that holds a .git entry.
should_ignore_path(path) == tree[path].ignored \/ tree[path].git

\* st.st_size > 1024 * 1024 * 1024 (parallel_scan.c:1012).
st_size_over_limit(path) == tree[path].present /\ tree[path].data = Huge

\* A scan with no walk for new files, which C18 excludes.
Unseen_no_walk(p) == {}

\* The regular files readdir has yet to return to the walk of process p.
Unseen(p) == {path \in DOMAIN tree \ proc[p].seen : tree[path].present}

\* traverse_for_new_files (parallel_scan.c:932-1050), one directory entry, in
\* the order readdir gives them: an ignored path is passed over (line 958), a
\* regular file the stat cache does not know is handed to object_store_file.
\* readdir reports the entry's type or, on a file system that does not keep
\* it, DT_UNKNOWN; only that branch looks at the size (lines 1010-1014).
scan_walk(p) ==
    /\ proc[p].pc = "scan_walk"
    /\ \E path \in Unseen(p), d_type \in {"DT_REG", "DT_UNKNOWN"} :
          IF \/ should_ignore_path(path)
             \/ d_type = "DT_UNKNOWN" /\ st_size_over_limit(path)
             \/ binary_index_find_entry(proc[p].bidx, path) # 0
          THEN proc' = [proc EXCEPT ![p].seen = proc[p].seen \cup {path}]
          ELSE proc' = [proc EXCEPT
                          ![p].pc = "os_hash", ![p].os_path = path,
                          ![p].os_ret = "walk_add",
                          ![p].seen = proc[p].seen \cup {path},
                          ![p].stats = [proc[p].stats EXCEPT ![path] = lstat(path)]]
    /\ UNCHANGED <<disk, counters, rest>>

\* scan_directory_stat_only, line 1287, once the walk is over:
\* binary_index_save of the stat cache. Back in cmd_snapshot (lines 403-486),
\* with no change detected the command releases the lock and returns 0.
scan_save(p) ==
    /\ proc[p].pc = "scan_walk"
    /\ Unseen(p) = {}
    /\ cache' = proc[p].bidx
    /\ proc' = [proc EXCEPT ![p] =
                  IF ChangesDetected(proc[p].has_prev, proc[p].prev, proc[p].new_index) = 0
                  THEN Release(proc[p], 0)
                  ELSE [proc[p] EXCEPT !.pc = "save_index"]]
    /\ UNCHANGED <<tree, objects, snapshots, CURRENT, liveIndex, lockFile, counters, rest>>

\* ------------------------------------------- object store (objects.c:60-120)

\* A store that keeps one copy of a body per storing process (the key taken
\* over the bytes and the pid), which the deduplication of C31 excludes.
SourceBytes_stamped(pr) ==
    IF pr.os_path = "" THEN IndexBlob(pr.new_index)
    ELSE [kind |-> "blob", data |-> tree[pr.os_path].data, entries |-> <<pr.pid>>]

\* The bytes fread gets from the source file of the store in progress: a
\* tree file, or ("") the temporary file holding the serialized new index.
SourceBytes(pr) ==
    IF pr.os_path = "" THEN IndexBlob(pr.new_index)
    ELSE IF tree[pr.os_path].present THEN Blob(tree[pr.os_path].data)
    ELSE pr.os_key.sha256

\* The kind of file the store writes, for the write log.
StoreKind(pr) == IF pr.os_path = "" THEN "idx" ELSE "obj"

\* object_store_file, lines 66-74: hash_file, then object_exists, which ends
\* the call with success whatever the bytes of the file found are.
os_hash(p) ==
    /\ proc[p].pc = "os_hash"
    /\ IF proc[p].os_path # "" /\ ~tree[proc[p].os_path].present
       THEN proc' = [proc EXCEPT ![p] = StoreFailed(proc[p])]
       ELSE LET key == hash_data(SourceBytes(proc[p])) IN
            IF key \in DOMAIN objects
            THEN proc' = [proc EXCEPT ![p] = Stored(proc[p], key)]
            ELSE proc' = [proc EXCEPT ![p].pc = "os_open", ![p].os_key = key]
    /\ UNCHANGED <<disk, counters, rest>>

\* object_store_file, lines 77-100: fopen of the object file with "wb", which
\* creates it empty or truncates it; a failure before it returns an error.
os_open(p) ==
    /\ proc[p].pc = "os_open"
    /\ \/ /\ objects' = (proc[p].os_key :> Truncated) @@ objects
          /\ proc' = [proc EXCEPT ![p].pc = "os_write",
                                  ![p].wlog = Logged(proc[p].wlog, StoreKind(proc[p]))]
          /\ UNCHANGED <<counters, rest>>
       \/ /\ CanFail
          /\ Fail
          /\ proc' = [proc EXCEPT ![p] = StoreFailed(proc[p])]
          /\ UNCHANGED objects
    /\ UNCHANGED <<tree, snapshots, CURRENT, liveIndex, cache, lockFile>>

\* object_store_file, lines 105-119: the copy loop and fclose. The writes go
\* to the file opened; when a failed writer has unlinked that name meanwhile
\* they reach no file of the store. A failed fwrite unlinks the object.
os_write(p) ==
    /\ proc[p].pc = "os_write"
    /\ \/ /\ objects' = IF proc[p].os_key \in DOMAIN objects
                        THEN [objects EXCEPT ![proc[p].os_key] = SourceBytes(proc[p])]
                        ELSE objects
          /\ proc' = [proc EXCEPT ![p] = Stored(proc[p], proc[p].os_key)]
          /\ UNCHANGED <<counters, rest>>
       \/ /\ CanFail
          /\ Fail
          /\ objects' = Remove(objects, proc[p].os_key)
          /\ proc' = [proc EXCEPT ![p] = StoreFailed(proc[p])]
    /\ UNCHANGED <<tree, snapshots, CURRENT, liveIndex, cache, lockFile>>

\* ------------------------------------------ committer (snapshot.c:488-662)

\* cmd_snapshot, lines 488-500: index_save of the live index file.
save_index(p) ==
    /\ proc[p].pc = "save_index"
    /\ \/ /\ liveIndex' = proc[p].new_index
          /\ Goto(p, "new_snapshot")
          /\ UNCHANGED <<counters, rest>>
       \/ /\ CanFail
          /\ Fail
          /\ proc' = [proc EXCEPT ![p] = Release(proc[p], 1)]
          /\ UNCHANGED liveIndex
    /\ UNCHANGED <<tree, objects, snapshots, CURRENT, cache, lockFile>>

\* generate_snapshot_id without HAVE_UUID (snapshot.c:267): the id is printed
\* from time(NULL) and rand() % 10000. No source file calls srand, so rand()
\* gives every process the sequence of srand(1); cmd_snapshot asks for one id
\* per process, and FirstRand stands for the first number of that sequence.
RandModulus == 10000
FirstRand == 9383

\* generate_snapshot_id (snapshot.c:252-270) at time now: with HAVE_UUID what
\* uuid_generate gives, an id never given before; without it the fallback.
generate_snapshot_id(now) ==
    IF build = "uuid" THEN nextId ELSE now * RandModulus + FirstRand

\* A committer that writes the snapshot record as soon as it has the id,
\* before the index object is stored: the order C5 states excludes it.
new_snapshot_record_first(p) ==
    /\ proc[p].pc = "new_snapshot"
    /\ snapshots' = (nextId :> Record(nextId, 0, clock, NoHash)) @@ snapshots
    /\ proc' = [proc EXCEPT ![p].pc = "os_hash", ![p].os_path = "",
                            ![p].os_ret = "index_stored",
                            ![p].id = nextId, ![p].ts = clock,
                            ![p].wlog = Logged(proc[p].wlog, "rec")]
    /\ nextId' = nextId + 1
    /\ UNCHANGED <<tree, objects, CURRENT, liveIndex, cache, lockFile,
                   rest, clock, nextPid, faults, crashes, edits>>

\* cmd_snapshot, lines 506-574: the id, the timestamp time(NULL) gives, the
\* parent, which is what find_latest_snapshot returns, and the temporary file
\* the new index is serialized to, which object_store_file is called on.
new_snapshot(p) ==
    /\ proc[p].pc = "new_snapshot"
    /\ \/ /\ \E now \in {clock, clock + 1}, parent \in find_latest_snapshot :
                /\ clock' = now
                /\ proc' = [proc EXCEPT ![p].pc = "os_hash", ![p].os_path = "",
                                        ![p].os_ret = "index_stored",
                                        ![p].id = generate_snapshot_id(now),
                                        ![p].ts = now,
                                        ![p].parent = parent]
          /\ nextId' = IF build = "uuid" THEN nextId + 1 ELSE nextId
          /\ UNCHANGED <<nextPid, faults, crashes, edits, rest>>
       \/ /\ CanFail
          /\ Fail
          /\ proc' = [proc EXCEPT ![p] = Release(proc[p], 1)]
    /\ UNCHANGED disk

\* cmd_snapshot, lines 591-625: json_save_snapshot of the record. When it
\* fails (no file, or a file cut short) the command returns 1.
write_record(p) ==
    /\ proc[p].pc = "write_record"
    /\ \/ /\ snapshots' = (proc[p].id :>
                             Record(proc[p].id, proc[p].parent, proc[p].ts,
                                    proc[p].index_hash)) @@ snapshots
          /\ proc' = [proc EXCEPT ![p].pc = "cur_open", ![p].wrote_rec = TRUE,
                                  ![p].wlog = Logged(proc[p].wlog, "rec")]
          /\ UNCHANGED <<counters, rest>>
       \/ /\ CanFail
          /\ Fail
          /\ \/ UNCHANGED snapshots
             \/ snapshots' = (proc[p].id :> BadRecord) @@ snapshots
          /\ proc' = [proc EXCEPT ![p] = Release(proc[p], 1)]
    /\ UNCHANGED <<tree, objects, CURRENT, liveIndex, cache, lockFile>>

\* cmd_snapshot, lines 627-640: fopen of CURRENT with "w" empties the file.
\* When it fails the write is skipped and the command goes on to report the
\* snapshot as created and return 0 (lines 644-662).
cur_open(p) ==
    /\ proc[p].pc = "cur_open"
    /\ \/ /\ CURRENT' = -1
          /\ proc' = [proc EXCEPT ![p].pc = "cur_write",
                                  ![p].wlog = Logged(proc[p].wlog, "cur")]
          /\ UNCHANGED <<counters, rest>>
       \/ /\ CanFail
          /\ Fail
          /\ proc' = [proc EXCEPT ![p] = Release(proc[p], 0)]
          /\ UNCHANGED CURRENT
    /\ UNCHANGED <<tree, objects, snapshots, liveIndex, cache, lockFile>>

\* cmd_snapshot, lines 641-662: fprintf of the id and fclose; the lock is
\* released and 0 returned.
cur_write(p) ==
    /\ proc[p].pc = "cur_write"
    /\ CURRENT' = proc[p].id
    /\ proc' = [proc EXCEPT ![p] = Release([proc[p] EXCEPT !.wrote_cur = TRUE], 0)]
    /\ UNCHANGED <<tree, objects, snapshots, liveIndex, cache, lockFile, counters, rest>>

\* ------------------------------------------------ restore (restore.c:209-419)

\* cmd_restore, lines 240-320: the identifier is resolved to a record that
\* loads; when CURRENT names another snapshot cmd_snapshot is called for the
\* safety snapshot. No lock is taken by cmd_restore itself.
rs_resolve(p) ==
    /\ proc[p].pc = "rs_resolve"
    /\ IF \A id \in DOMAIN snapshots : ~snapshots[id].ok
       THEN Exit(p)
       ELSE \E id \in DOMAIN snapshots :
              /\ snapshots[id].ok
              /\ LET cur == get_current_snapshot_id IN
                 proc' = [proc EXCEPT
                            ![p].target = id,
                            ![p].target_hash = snapshots[id].index_hash,
                            ![p].caller = IF cur # 0 /\ cur # id THEN "restore" ELSE "main",
                            ![p].pc = IF cur # 0 /\ cur # id THEN "lk_open" ELSE "rs_load"]
    /\ UNCHANGED <<disk, counters, rest>>

\* cmd_restore, lines 325-370: object_load of the target's index object and
\* index_load of its bytes; either failing ends the command with an error.
rs_load(p) ==
    /\ proc[p].pc = "rs_load"
    /\ IF IndexLoads(proc[p].target_hash)
       THEN proc' = [proc EXCEPT ![p].pc = "rs_file", ![p].i = 1,
                                 ![p].new_index = objects[proc[p].target_hash].entries]
       ELSE Exit(p)
    /\ UNCHANGED <<disk, counters, rest>>

\* cmd_restore, lines 372-389: object_restore_file of one entry, which
\* rewrites the tree file with the bytes of the object (the new file has a
\* stat signature of its own). It fails when the object cannot be opened,
\* when fopen of the destination fails (objects.c:254-259: no directory is
\* created, so it does when the path's directory is missing) or on an I/O
\* error; a failure is a warning and the loop goes on.
rs_file(p) ==
    /\ proc[p].pc = "rs_file"
    /\ proc[p].i <= Len(proc[p].new_index)
    /\ LET e == proc[p].new_index[proc[p].i] IN
       /\ proc' = [proc EXCEPT ![p].i = proc[p].i + 1]
       /\ IF e.hash \in DOMAIN objects /\ tree[e.path].dir
          THEN \/ /\ \E st \in Stats :
                       tree' = [tree EXCEPT ![e.path] =
                                  Written(tree[e.path], BodyOf(objects[e.hash]), st)]
                  /\ UNCHANGED <<counters, rest>>
               \/ /\ CanFail
                  /\ Fail
                  /\ UNCHANGED tree
          ELSE UNCHANGED <<tree, counters, rest>>
    /\ UNCHANGED <<objects, snapshots, CURRENT, liveIndex, cache, lockFile>>

\* cmd_restore, lines 393-399, after the last entry: index_save of the live
\* index file.
rs_save_index(p) ==
    /\ proc[p].pc = "rs_file"
    /\ proc[p].i > Len(proc[p].new_index)
    /\ liveIndex' = proc[p].new_index
    /\ Goto(p, "rs_cur_open")
    /\ UNCHANGED <<tree, objects, snapshots, CURRENT, cache, lockFile, counters, rest>>

\* cmd_restore, lines 401-404: fopen of CURRENT with "w".
rs_cur_open(p) ==
    /\ proc[p].pc = "rs_cur_open"
    /\ CURRENT' = -1
    /\ Goto(p, "rs_cur_write")
    /\ UNCHANGED <<tree, objects, snapshots, liveIndex, cache, lockFile, counters, rest>>

\* cmd_restore, lines 405-419: fprintf of the restored id; the command
\* returns 0 and the process exits. When it was run as
\* "frac restore R && frac snapshot" the shell then starts the snapshot in a
\* process of its own.
rs_cur_write(p) ==
    /\ proc[p].pc = "rs_cur_write"
    /\ CURRENT' = proc[p].target
    /\ IF proc[p].cmd = "roundtrip"
       THEN /\ proc' = [proc EXCEPT ![p] =
                          [IdleProc EXCEPT !.pc = "lk_open", !.pid = nextPid,
                                           !.cmd = "roundtrip",
                                           !.target = proc[p].target,
                                           !.target_hash = proc[p].target_hash]]
            /\ nextPid' = nextPid + 1
       ELSE /\ Exit(p)
            /\ UNCHANGED nextPid
    /\ UNCHANGED <<tree, objects, snapshots, liveIndex, cache, lockFile,
                   rest, clock, nextId, faults, crashes, edits>>

\* ------------------------------------------------- delete (delete.c:204-306)

\* A delete that also empties the object store, which C26 excludes.
cmd_delete_with_objects(p) ==
    /\ proc[p].pc = "dl_resolve"
    /\ \E id \in DOMAIN snapshots :
          /\ snapshots[id].ok
          /\ snapshots' = Remove(snapshots, id)
    /\ objects' = <<>>
    /\ Exit(p)
    /\ UNCHANGED <<tree, CURRENT, liveIndex, cache, lockFile, counters, rest>>

\* cmd_delete: the identifier is resolved to a record that loads, and the
\* record file is unlinked. Nothing else is read or written.
cmd_delete(p) ==
    /\ proc[p].pc = "dl_resolve"
    /\ IF \A id \in DOMAIN snapshots : ~snapshots[id].ok
       THEN UNCHANGED snapshots
       ELSE \E id \in DOMAIN snapshots :
              /\ snapshots[id].ok
              /\ snapshots' = Remove(snapshots, id)
    /\ Exit(p)
    /\ UNCHANGED <<tree, objects, CURRENT, liveIndex, cache, lockFile, counters, rest>>

\* ------------------------------------------------------------ environment

Commands == {"snapshot", "restore", "delete"}

\* The user runs frac snapshot, frac restore <id>, frac delete <id> or frac
\* list, or ("roundtrip") frac restore <id> && frac snapshot: a new process, at the
\* first statement of the command that touches the repository. Slots are
\* filled in order; max bounds the process ids of a behaviour.
Start(p, cmds, max) ==
    /\ proc[p].pc = "idle"
    /\ p = "p2" => proc["p1"].pc # "idle"
    /\ nextPid <= max
    /\ \E c \in cmds :
          proc' = [proc EXCEPT ![p] =
                     [IdleProc EXCEPT
                        !.pid = nextPid, !.cmd = c,
                        !.pc = IF c = "snapshot" THEN "lk_open"
                               ELSE IF c \in {"restore", "roundtrip"} THEN "rs_resolve"
                               ELSE IF c = "list" THEN "list"
                               ELSE "dl_resolve"]]
    /\ nextPid' = nextPid + 1
    /\ UNCHANGED <<disk, rest, clock, nextId, faults, crashes, edits>>

\* The process in slot p is killed where it stands.
Crash(p) ==
    /\ proc[p].pc # "idle"
    /\ crashes < MaxCrashes
    /\ crashes' = crashes + 1
    /\ Exit(p)
    /\ UNCHANGED <<disk, rest, clock, nextPid, nextId, faults, edits>>

\* The user writes a file of the working tree (making its directory when
\* it is missing) or removes one.
Edit ==
    /\ edits < MaxEdits
    /\ edits' = edits + 1
    /\ \E path \in DOMAIN tree :
          \/ \E d \in Contents, st \in Stats :
                LET f == [Written(tree[path], d, st) EXCEPT !.dir = TRUE] IN
                /\ tree[path] # f
                /\ tree' = [tree EXCEPT ![path] = f]
          \/ /\ tree[path].present
             /\ tree' = [tree EXCEPT ![path] = Unlinked(tree[path])]
    /\ UNCHANGED <<objects, snapshots, CURRENT, liveIndex, cache, lockFile,
                   rest, clock, nextPid, nextId, faults, crashes, proc>>

\* No command is running.
Quiet == \A q \in Procs : proc[q].pc = "idle"

\* The steps of cmd_snapshot once fractyl_lock_wait_acquire has been entered,
\* but for the wait on a lock another process holds.
Snapshot(p) ==
    \/ lock_open(p) \/ lock_write(p) \/ lock_read(p) \/ lock_unlink(p)
    \/ lock_retry(p)
    \/ release_read(p) \/ release_unlink(p) \/ snapshot_return(p)
    \/ scan_begin(p) \/ scan_walk(p) \/ scan_save(p)
    \/ os_hash(p) \/ os_open(p) \/ os_write(p)
    \/ save_index(p) \/ new_snapshot(p) \/ write_record(p)
    \/ cur_open(p) \/ cur_write(p)

\* The steps of cmd_restore and cmd_delete.
Restore(p) ==
    \/ rs_resolve(p) \/ rs_load(p) \/ rs_file(p) \/ rs_save_index(p)
    \/ rs_cur_open(p) \/ rs_cur_write(p)

\* One user at one terminal: commands run one after the other, the tree is
\* edited at any time, a command may be killed and an I/O call may fail.
Next ==
    \/ Edit
    \/ Start("p1", Commands, MaxCmds)
    \/ Crash("p1")
    \/ Snapshot("p1")
    \/ Restore("p1")
    \/ cmd_delete("p1")

Spec == Init /\ [][Next]_vars

\* Snapshot commands started while another runs (the daemon and a user, two
\* terminals): MaxWriters of them, the tree edited between commands.
NextRace ==
    \/ Quiet /\ Edit
    \/ \E p \in Procs :
          \/ Start(p, {"snapshot"}, MaxWriters)
          \/ Crash(p)
          \/ Snapshot(p)
          \/ lock_check(p)

SpecRace == Init /\ [][NextRace]_vars

\* One writer at a time and nothing else: snapshot commands run one after
\* the other, the tree edited between them.
NextSolo ==
    \/ Quiet /\ Edit
    \/ Start("p1", {"snapshot"}, MaxWriters)
    \/ Crash("p1")
    \/ Snapshot("p1")

SpecSolo == Init /\ [][NextSolo]_vars

\* The same, with the running command scheduled again and again.
SpecSoloLive == SpecSolo /\ WF_vars(Snapshot("p1"))

\* Snapshot commands in one behaviour of SpecRetry.
MaxRetryCmds == 3

\* The same with one more command: a snapshot, an attempt that is killed and
\* the attempt after it.
NextRetry ==
    \/ Quiet /\ Edit
    \/ Start("p1", {"snapshot"}, MaxRetryCmds)
    \/ Crash("p1")
    \/ Snapshot("p1")

SpecRetry == Init /\ [][NextRetry]_vars

\* The program compiled with HAVE_UUID or without it: nothing in the sources
\* defines the macro.
InitIds ==
    /\ tree = [path \in Paths |-> NoFile]
    /\ objects = <<>>
    /\ snapshots = <<>>
    /\ CURRENT = 0
    /\ liveIndex = <<>>
    /\ cache = <<>>
    /\ lockFile = NoLock
    /\ clock = 1
    /\ nextPid = 1
    /\ nextId = 1
    /\ faults = 0
    /\ crashes = 0
    /\ edits = 0
    /\ HEAD = <<>>
    /\ refs = NoRefs
    /\ origin = <<>>
    /\ pidFile = 0
    /\ daemons = <<>>
    /\ pool = NoPool
    /\ build \in {"uuid", "fallback"}
    /\ proc = [p \in Procs |-> IdleProc]

\* Snapshot commands one after the other, of either build.
SpecIds == InitIds /\ [][NextSolo]_vars

\* ------------------------------------ commands in turn on a tree at rest

\* The working-tree paths of SpecSeq; those of InDir lie in a directory of
\* their own, which the user can remove with everything in it.
SeqPaths == {"a", "d/b"}
InDir == {"d/b"}

\* Process ids of one behaviour of SpecSeq.
MaxSeq == 3

\* The user adds a rule to .gitignore that matches a path.
Ignore ==
    /\ edits < MaxEdits
    /\ edits' = edits + 1
    /\ \E path \in DOMAIN tree :
          /\ ~tree[path].ignored
          /\ tree' = [tree EXCEPT ![path].ignored = TRUE]
    /\ UNCHANGED <<objects, snapshots, CURRENT, liveIndex, cache, lockFile,
                   rest, clock, nextPid, nextId, faults, crashes, proc>>

\* The user removes the directory a path lies in (rm -r).
RemoveDir ==
    /\ edits < MaxEdits
    /\ edits' = edits + 1
    /\ \E path \in DOMAIN tree \cap InDir :
          /\ tree[path].dir
          /\ tree' = [tree EXCEPT ![path] =
                         [Unlinked(tree[path]) EXCEPT !.dir = FALSE, !.git = FALSE]]
    /\ UNCHANGED <<objects, snapshots, CURRENT, liveIndex, cache, lockFile,
                   rest, clock, nextPid, nextId, faults, crashes, proc>>

InitSeq ==
    /\ tree = [path \in SeqPaths |-> NoFile]
    /\ objects = <<>>
    /\ snapshots = <<>>
    /\ CURRENT = 0
    /\ liveIndex = <<>>
    /\ cache = <<>>
    /\ lockFile = NoLock
    /\ clock = 1
    /\ nextPid = 1
    /\ nextId = 1
    /\ faults = 0
    /\ crashes = 0
    /\ edits = 0
    /\ HEAD = <<>>
    /\ refs = NoRefs
    /\ origin = <<>>
    /\ pidFile = 0
    /\ daemons = <<>>
    /\ pool = NoPool
    /\ build = "uuid"
    /\ proc = [p \in Procs |-> IdleProc]

\* The steps of cmd_snapshot when open(O_CREAT | O_EXCL) finds no lock file
\* (lock.c:50): commands run in turn and every one releases the lock before
\* it returns, so that no lock file is ever found.
SnapshotAlone(p) ==
    \/ lock_open(p) \/ lock_write(p)
    \/ release_read(p) \/ release_unlink(p) \/ snapshot_return(p)
    \/ scan_begin(p) \/ scan_walk(p) \/ scan_save(p)
    \/ os_hash(p) \/ os_open(p) \/ os_write(p)
    \/ save_index(p) \/ new_snapshot(p) \/ write_record(p)
    \/ cur_open(p) \/ cur_write(p)

\* One user at one terminal who lets each command end before touching the
\* tree: snapshot, restore, and restore followed by snapshot; an I/O call may
\* fail, no process is killed.
NextSeq ==
    \/ Quiet /\ Edit
    \/ Quiet /\ Ignore
    \/ Quiet /\ RemoveDir
    \/ Start("p1", {"snapshot", "restore", "roundtrip"}, MaxSeq)
    \/ SnapshotAlone("p1")
    \/ Restore("p1")

SpecSeq == InitSeq /\ [][NextSeq]_vars

\* ------------------------------ snapshots of a tree with foreign parts

\* git init, or a submodule checkout, in the directory a path lies in: the
\* directory now holds a .git entry.
GitInit ==
    /\ edits < MaxEdits
    /\ edits' = edits + 1
    /\ \E path \in DOMAIN tree \cap InDir :
          /\ tree[path].dir
          /\ ~tree[path].git
          /\ tree' = [tree EXCEPT ![path].git = TRUE]
    /\ UNCHANGED <<objects, snapshots, CURRENT, liveIndex, cache, lockFile,
                   rest, clock, nextPid, nextId, faults, crashes, proc>>

\* The user writes a file of more than 1 GiB.
WriteLarge ==
    /\ edits < MaxEdits
    /\ edits' = edits + 1
    /\ \E path \in DOMAIN tree, st \in Stats :
          LET f == [Written(tree[path], Huge, st) EXCEPT !.dir = TRUE] IN
          /\ tree[path] # f
          /\ tree' = [tree EXCEPT ![path] = f]
    /\ UNCHANGED <<objects, snapshots, CURRENT, liveIndex, cache, lockFile,
                   rest, clock, nextPid, nextId, faults, crashes, proc>>

\* One user at one terminal who takes snapshots of a tree in which big files
\* and foreign repositories come and go between the commands.
NextScan ==
    \/ Quiet /\ Edit
    \/ Quiet /\ GitInit
    \/ Quiet /\ WriteLarge
    \/ Start("p1", {"snapshot"}, MaxSeq)
    \/ SnapshotAlone("p1")

SpecScan == InitSeq /\ [][NextScan]_vars

\* ------------------------------------ list (list.c) and branch switches

\* The elements of a set of numbers in ascending order.
RECURSIVE Ascending(_)
Ascending(S) ==
    IF S = {} THEN <<>>
    ELSE LET m == CHOOSE x \in S : \A y \in S : x <= y
         IN <<m>> \o Ascending(S \ {m})

\* cmd_list, lines 216-229 and 74-111: the nodes print_tree_structure comes
\* to from the nodes of frontier, going from a node to the nodes whose
\* record names it as parent.
RECURSIVE Descendants(_, _, _)
Descendants(recs, frontier, done) ==
    IF frontier = {} THEN done
    ELSE LET children == {c \in DOMAIN recs :
                             recs[c].ok /\ recs[c].parent \in frontier}
         IN Descendants(recs, children \ (done \cup frontier), done \cup frontier)

\* cmd_list (list.c:127-273): the records of .fractyl/snapshots that load
\* are the nodes (lines 140-207); the roots are the nodes whose record has no
\* parent (236-245), and what is printed is the roots and what hangs below
\* them (257-262). The ids printed are kept, in ascending order.
cmd_list(p) ==
    /\ proc[p].pc = "list"
    /\ LET recs == Dir(<<"snapshots">>).snapshots
           roots == {n \in DOMAIN recs : recs[n].ok /\ recs[n].parent = 0}
       IN proc' = [proc EXCEPT ![p].pc = "listed",
                               ![p].result_id = Ascending(Descendants(recs, roots, {}))]
    /\ UNCHANGED <<disk, counters, rest>>

\* cmd_list returns 0 and the process exits.
list_return(p) ==
    /\ proc[p].pc = "listed"
    /\ Exit(p)
    /\ UNCHANGED <<disk, counters, rest>>

\* The branches of the git repository the working directory can be in:
\* fix/a and fix-a, abridged; <<>> stands for no git repository.
Branches == {<<>>, <<"f", "/", "a">>, <<"f", "-", "a">>}

\* Command invocations in one behaviour of SpecBranch.
MaxBranchCmds == 4

\* git checkout b (git init when there was no repository): from now on the
\* commands compute their paths from b. The directory and the stat cache at
\* the paths of the branch left are kept in refs, those at the paths of b
\* are the ones in use; origin remembers the branch the records in the
\* directory left were committed on.
Checkout(b) ==
    /\ Quiet
    /\ b # HEAD
    /\ edits < MaxEdits
    /\ edits' = edits + 1
    /\ HEAD' = b
    /\ origin' = [id \in DOMAIN origin \cup DOMAIN snapshots |->
                     IF id \in DOMAIN origin THEN origin[id] ELSE HEAD]
    /\ LET to == IF b = <<>> THEN <<>> ELSE git_get_current_branch(b)
           old == ActiveDir
           new == paths_get_snapshots_dir(to)
           old_cache == branch_name(paths_get_current_branch)
           new_cache == branch_name(to)
           heads == IF new = old THEN refs.heads
                    ELSE LET others == Remove(refs.heads, new) IN
                         IF RefDir(snapshots, CURRENT) = NoDir THEN others
                         ELSE (old :> RefDir(snapshots, CURRENT)) @@ others
           caches == IF new_cache = old_cache THEN refs.caches
                     ELSE LET others == Remove(refs.caches, new_cache) IN
                          IF cache = <<>> THEN others
                          ELSE (old_cache :> cache) @@ others
       IN /\ snapshots' = IF new = old THEN snapshots
                          ELSE IF new \in DOMAIN refs.heads
                          THEN refs.heads[new].snapshots ELSE <<>>
          /\ CURRENT' = IF new = old THEN CURRENT
                        ELSE IF new \in DOMAIN refs.heads
                        THEN refs.heads[new].CURRENT ELSE 0
          /\ cache' = IF new_cache = old_cache THEN cache
                      ELSE IF new_cache \in DOMAIN refs.caches
                      THEN refs.caches[new_cache] ELSE <<>>
          /\ refs' = [heads |-> heads, caches |-> caches]
    /\ UNCHANGED <<tree, objects, liveIndex, lockFile, clock, nextPid, nextId,
                   faults, crashes, proc, pidFile, daemons, pool, build>>

\* A working tree with one file, in a git repository on one of the branches
\* or outside git; no snapshot yet.
InitBranch ==
    /\ tree = [path \in Paths |-> File("x", 0)]
    /\ objects = <<>>
    /\ snapshots = <<>>
    /\ CURRENT = 0
    /\ liveIndex = <<>>
    /\ cache = <<>>
    /\ lockFile = NoLock
    /\ clock = 1
    /\ nextPid = 1
    /\ nextId = 1
    /\ faults = 0
    /\ crashes = 0
    /\ edits = 0
    /\ proc = [p \in Procs |-> IdleProc]
    /\ HEAD \in Branches
    /\ refs = NoRefs
    /\ origin = <<>>
    /\ pidFile = 0
    /\ daemons = <<>>
    /\ pool = NoPool
    /\ build = "uuid"

\* One user at one terminal: snapshot, delete and list in turn, the tree
\* edited and the branch switched between the commands.
NextBranch ==
    \/ Quiet /\ Edit
    \/ \E b \in Branches : Checkout(b)
    \/ Start("p1", {"snapshot", "delete", "list"}, MaxBranchCmds)
    \/ SnapshotAlone("p1")
    \/ cmd_delete("p1")
    \/ cmd_list("p1")
    \/ list_return("p1")

SpecBranch == InitBranch /\ [][NextBranch]_vars

\* --------------------------------- a writer and the daemon, a tree at rest

\* The daemon's loop (daemon_standalone.c:144-160, 113-115): the sleep is
\* over and the daemon calls cmd_snapshot, in its own process.
daemon_snapshot(p) ==
    /\ proc[p].pc = "sleep"
    /\ proc' = [proc EXCEPT ![p].pc = "lk_open"]
    /\ UNCHANGED <<disk, counters, rest>>

\* The steps of cmd_snapshot on a working tree without files: the scan finds
\* nothing, no change is detected and the command releases the lock and
\* returns 0 (snapshot.c:477-486).
SnapshotEmpty(p) ==
    \/ lock_open(p) \/ lock_write(p) \/ lock_read(p) \/ lock_unlink(p)
    \/ lock_retry(p) \/ lock_check(p)
    \/ scan_begin(p) \/ scan_save(p)
    \/ release_read(p) \/ release_unlink(p) \/ snapshot_return(p)

\* A user's frac snapshot (process 1) enters fractyl_lock_wait_acquire while
\* the daemon (process 2) is asleep between two snapshots; the repository
\* directory is writable, or it is not.
InitWait ==
    /\ tree = [path \in Paths |-> NoFile]
    /\ objects = <<>>
    /\ snapshots = <<>>
    /\ CURRENT = 0
    /\ liveIndex = <<>>
    /\ cache = <<>>
    /\ lockFile \in {NoLock, Unwritable}
    /\ clock = 1
    /\ nextPid = 3
    /\ nextId = 1
    /\ faults = 0
    /\ crashes = 0
    /\ edits = 0
    /\ HEAD = <<>>
    /\ refs = NoRefs
    /\ origin = <<>>
    /\ pidFile = 0
    /\ daemons = <<>>
    /\ pool = NoPool
    /\ build = "uuid"
    /\ proc = [p \in Procs |->
                 IF p = "p1"
                 THEN [IdleProc EXCEPT !.pc = "lk_open", !.pid = 1, !.cmd = "snapshot"]
                 ELSE [IdleProc EXCEPT !.pc = "sleep", !.pid = 2, !.cmd = "snapshot",
                                       !.caller = "daemon"]]

NextWait ==
    \/ SnapshotEmpty("p1")
    \/ SnapshotEmpty("p2")
    \/ daemon_snapshot("p2")

\* Both processes are scheduled again and again.
SpecWait ==
    /\ InitWait
    /\ [][NextWait]_vars
    /\ WF_vars(SnapshotEmpty("p1"))
    /\ WF_vars(SnapshotEmpty("p2") \/ daemon_snapshot("p2"))

\* ------------------------------- a waiter and a holder (lock.c:146-178)

\* The polls of a fractyl_lock_wait_acquire (timeout_seconds * 10 in the
\* code) in SpecHandover, where the sleep between two polls is a step.
MaxPolls == 2

\* A wait loop that sleeps after every failed acquire, also when the lock
\* file is gone by the time it is checked, which C38 excludes.
lock_poll_always_sleeps(p) ==
    /\ proc[p].pc = "lk_check"
    /\ Goto(p, "lk_sleep")
    /\ UNCHANGED <<disk, counters, rest>>

\* fractyl_lock_wait_acquire, lines 159-171, after a failed acquire:
\* fractyl_lock_check; with no live holder the loop tries again at once, else
\* the process goes to sleep for 100 ms.
lock_poll(p) ==
    /\ proc[p].pc = "lk_check"
    /\ IF fractyl_lock_check <= 0
       THEN Goto(p, "lk_open")
       ELSE Goto(p, "lk_sleep")
    /\ UNCHANGED <<disk, counters, rest>>

\* fractyl_lock_wait_acquire, lines 173-177 and 153: the sleep is over, the
\* attempt is counted, and the loop goes on or ends with the timeout;
\* cmd_snapshot then returns 1 (snapshot.c:331-335).
lock_wake(p) ==
    /\ proc[p].pc = "lk_sleep"
    /\ IF proc[p].attempts + 1 < MaxPolls
       THEN proc' = [proc EXCEPT ![p].pc = "lk_open",
                                 ![p].attempts = proc[p].attempts + 1]
       ELSE proc' = [proc EXCEPT ![p].pc = "return", ![p].ret = 1,
                                 ![p].attempts = proc[p].attempts + 1]
    /\ UNCHANGED <<disk, counters, rest>>

\* The steps of cmd_snapshot on a working tree without files, the sleep of
\* the wait loop being a step.
SnapshotPolling(p) ==
    \/ lock_open(p) \/ lock_write(p) \/ lock_read(p) \/ lock_unlink(p)
    \/ lock_retry(p) \/ lock_poll(p) \/ lock_wake(p)
    \/ scan_begin(p) \/ scan_save(p)
    \/ release_read(p) \/ release_unlink(p) \/ snapshot_return(p)

\* Two frac snapshot processes enter fractyl_lock_wait_acquire on a
\* repository without a lock file; no further writer comes.
InitHandover ==
    /\ tree = [path \in Paths |-> NoFile]
    /\ objects = <<>>
    /\ snapshots = <<>>
    /\ CURRENT = 0
    /\ liveIndex = <<>>
    /\ cache = <<>>
    /\ lockFile = NoLock
    /\ clock = 1
    /\ nextPid = 3
    /\ nextId = 1
    /\ faults = 0
    /\ crashes = 0
    /\ edits = 0
    /\ HEAD = <<>>
    /\ refs = NoRefs
    /\ origin = <<>>
    /\ pidFile = 0
    /\ daemons = <<>>
    /\ pool = NoPool
    /\ build = "uuid"
    /\ proc = [p \in Procs |->
                 [IdleProc EXCEPT !.pc = "lk_open", !.cmd = "snapshot",
                                  !.pid = IF p = "p1" THEN 1 ELSE 2]]

\* Either process may be killed where it stands.
NextHandover ==
    \/ \E p \in Procs : SnapshotPolling(p)
    \/ \E p \in Procs : Crash(p)

\* A process that is not killed is scheduled again and again.
SpecHandover ==
    /\ InitHandover
    /\ [][NextHandover]_vars
    /\ \A p \in Procs : WF_vars(SnapshotPolling(p))

\* ------------------ the thread pool (parallel_scan.c:79-125, 214-414)

\* The worker threads (num_threads is at least 2, line 348).
Workers == {"w1", "w2"}

\* The directories below the root the scan is given, and the ones readdir
\* finds in each.
PoolDirs == {".", "a", "b", "a/c"}
Subdirs(dir) ==
    IF dir = "." THEN {"a", "b"} ELSE IF dir = "a" THEN {"a/c"} ELSE {}

\* The timed waits of one second scan_directory_parallel sits through before
\* it gives up waiting (max_wait, 30 in the code, line 371), abridged.
MaxWait == 2

\* What no step of the pool touches.
outside_pool == <<disk, clock, nextPid, nextId, crashes, edits, proc, HEAD, refs,
                  origin, pidFile, daemons, build>>

\* A dequeue_work that returns NULL as soon as shutdown is set, with work
\* still queued, which C40 excludes.
dequeue_work_shutdown_first(w) ==
    /\ pool.worker[w].pc = "idle"
    /\ \/ /\ pool.shutdown
          /\ pool' = [pool EXCEPT !.worker[w].pc = "exited"]
       \/ /\ ~pool.shutdown
          /\ pool.queue # <<>>
          /\ pool' = [pool EXCEPT
                        !.queue = Tail(pool.queue),
                        !.queue_count = pool.queue_count - 1,
                        !.active_threads = pool.active_threads + 1,
                        !.deq[Head(pool.queue)] = pool.deq[Head(pool.queue)] + 1,
                        !.worker[w] = [pc |-> "open", item |-> Head(pool.queue),
                                       ents |-> {}]]
    /\ UNCHANGED <<outside_pool, faults>>

\* worker_thread, lines 217-219, and dequeue_work (101-125), under the mutex:
\* with the queue empty the thread waits, or returns NULL and leaves its loop
\* when shutdown is set; else the head of the queue is taken. late records
\* that a directory was taken after shutdown was set.
dequeue_work(w) ==
    /\ pool.worker[w].pc = "idle"
    /\ \/ /\ pool.queue = <<>>
          /\ pool.shutdown
          /\ pool' = [pool EXCEPT !.worker[w].pc = "exited"]
       \/ /\ pool.queue # <<>>
          /\ pool' = [pool EXCEPT
                        !.queue = Tail(pool.queue),
                        !.queue_count = pool.queue_count - 1,
                        !.active_threads = pool.active_threads + 1,
                        !.deq[Head(pool.queue)] = pool.deq[Head(pool.queue)] + 1,
                        !.late = pool.late \/ pool.shutdown,
                        !.worker[w] = [pc |-> "open", item |-> Head(pool.queue),
                                       ents |-> {}]]
    /\ UNCHANGED <<outside_pool, faults>>

\* worker_thread, lines 221-234: opendir; when it fails the item is dropped
\* and active_threads is decremented under the mutex.
worker_opendir(w) ==
    /\ pool.worker[w].pc = "open"
    /\ \/ /\ pool' = [pool EXCEPT !.worker[w].pc = "read",
                                  !.worker[w].ents = Subdirs(pool.worker[w].item)]
          /\ UNCHANGED faults
       \/ /\ CanFail
          /\ faults' = faults + 1
          /\ pool' = [pool EXCEPT
                        !.active_threads = pool.active_threads - 1,
                        !.done[pool.worker[w].item] = pool.done[pool.worker[w].item] + 1,
                        !.worker[w] = [pc |-> "idle", item |-> "", ents |-> {}]]
    /\ UNCHANGED outside_pool

\* worker_thread, lines 237-283, one entry that is a directory: enqueue_work
\* (79-99) appends it to the queue under the mutex, or drops it when malloc
\* fails.
worker_readdir(w) ==
    /\ pool.worker[w].pc = "read"
    /\ \E dir \in pool.worker[w].ents :
          \/ /\ pool' = [pool EXCEPT
                           !.queue = Append(pool.queue, dir),
                           !.queue_count = pool.queue_count + 1,
                           !.enq[dir] = pool.enq[dir] + 1,
                           !.worker[w].ents = pool.worker[w].ents \ {dir}]
             /\ UNCHANGED faults
          \/ /\ CanFail
             /\ faults' = faults + 1
             /\ pool' = [pool EXCEPT !.worker[w].ents = pool.worker[w].ents \ {dir}]
    /\ UNCHANGED outside_pool

\* worker_thread, lines 286-305: readdir has returned NULL; closedir,
\* dirs_processed++, and active_threads-- under the mutex.
worker_closedir(w) ==
    /\ pool.worker[w].pc = "read"
    /\ pool.worker[w].ents = {}
    /\ pool' = [pool EXCEPT
                  !.active_threads = pool.active_threads - 1,
                  !.done[pool.worker[w].item] = pool.done[pool.worker[w].item] + 1,
                  !.worker[w] = [pc |-> "idle", item |-> "", ents |-> {}]]
    /\ UNCHANGED <<outside_pool, faults>>

\* progress_thread (lines 312-328): the thread leaves its loop once it reads
\* shutdown as set.
progress_thread ==
    /\ pool.progress = "run"
    /\ pool.shutdown
    /\ pool' = [pool EXCEPT !.progress = "exited"]
    /\ UNCHANGED <<outside_pool, faults>>

\* scan_directory_parallel, line 366: the root directory is enqueued.
scan_enqueue_root ==
    /\ pool.main = "enqueue"
    /\ \/ /\ pool' = [pool EXCEPT !.main = "wait",
                                  !.queue = Append(pool.queue, "."),
                                  !.queue_count = pool.queue_count + 1,
                                  !.enq["."] = pool.enq["."] + 1]
          /\ UNCHANGED faults
       \/ /\ CanFail
          /\ faults' = faults + 1
          /\ pool' = [pool EXCEPT !.main = "wait"]
    /\ UNCHANGED outside_pool

\* The condition of the wait loop, line 372.
WorkLeft == pool.queue_count > 0 \/ pool.active_threads > 0

\* scan_directory_parallel, lines 372-381: pthread_cond_timedwait returns
\* ETIMEDOUT after a second and the wait is counted.
scan_timedwait ==
    /\ pool.main = "wait"
    /\ WorkLeft /\ pool.wait_count < MaxWait
    /\ pool' = [pool EXCEPT !.wait_count = pool.wait_count + 1]
    /\ UNCHANGED <<outside_pool, faults>>

\* scan_directory_parallel, lines 372 and 382-384: the loop ends, with the
\* work done or the waits used up; shutdown is set and the workers are woken.
scan_shutdown ==
    /\ pool.main = "wait"
    /\ ~(WorkLeft /\ pool.wait_count < MaxWait)
    /\ pool' = [pool EXCEPT !.main = "join", !.shutdown = TRUE]
    /\ UNCHANGED <<outside_pool, faults>>

\* scan_directory_parallel, lines 387-413: pthread_join of every worker and
\* of the progress thread, then the return.
scan_join ==
    /\ pool.main = "join"
    /\ \A w \in Workers : pool.worker[w].pc = "exited"
    /\ pool.progress = "exited"
    /\ pool' = [pool EXCEPT !.main = "returned"]
    /\ UNCHANGED <<outside_pool, faults>>

\* scan_directory_parallel, lines 332-363: the pool is set up and the worker
\* threads and the progress thread are created; nothing is queued yet.
InitPool ==
    /\ tree = [path \in Paths |-> NoFile]
    /\ objects = <<>>
    /\ snapshots = <<>>
    /\ CURRENT = 0
    /\ liveIndex = <<>>
    /\ cache = <<>>
    /\ lockFile = NoLock
    /\ clock = 1
    /\ nextPid = 1
    /\ nextId = 1
    /\ faults = 0
    /\ crashes = 0
    /\ edits = 0
    /\ HEAD = <<>>
    /\ refs = NoRefs
    /\ origin = <<>>
    /\ pidFile = 0
    /\ daemons = <<>>
    /\ build = "uuid"
    /\ proc = [p \in Procs |-> IdleProc]
    /\ pool = [main |-> "enqueue", queue |-> <<>>, queue_count |-> 0,
               active_threads |-> 0, shutdown |-> FALSE, wait_count |-> 0,
               worker |-> [w \in Workers |-> [pc |-> "idle", item |-> "", ents |-> {}]],
               progress |-> "run",
               enq |-> [dir \in PoolDirs |-> 0],
               deq |-> [dir \in PoolDirs |-> 0],
               done |-> [dir \in PoolDirs |-> 0],
               late |-> FALSE]

\* The threads of one scan_directory_parallel.
NextPool ==
    \/ scan_enqueue_root \/ scan_timedwait \/ scan_shutdown \/ scan_join
    \/ progress_thread
    \/ \E w \in Workers :
          \/ dequeue_work(w) \/ worker_opendir(w) \/ worker_readdir(w)
          \/ worker_closedir(w)

SpecPool == InitPool /\ [][NextPool]_vars

\* ------------------------- the daemon's processes (daemon_standalone.c)

\* Command invocations in one behaviour of SpecDaemon.
MaxDaemonCmds == 3

\* The polls of daemon_stop's wait for the daemon to exit (line 266 has 100
\* of them, 100 ms apart), abridged.
StopPolls == 2

\* A daemon process is running.
IsDaemon(pid) == pid \in DOMAIN daemons

\* is_process_running of daemon_standalone.c (lines 28-37): kill(pid, 0)
\* finds a process.
daemon_is_process_running(pid) ==
    pid > 0 /\ (IsDaemon(pid) \/ is_process_running(pid))

\* read_pid_file (lines 40-50): the pid in daemon.pid, 0 without the file.
read_pid_file == pidFile

\* daemon_status (lines 286-305): 1 when the pid file names a running process.
daemon_status ==
    IF read_pid_file > 0 /\ daemon_is_process_running(read_pid_file) THEN 1 ELSE 0

\* SIGTERM reaches daemon d: before daemon_main_loop has installed
\* signal_handler (lines 129-130) the process is terminated, afterwards the
\* handler clears g_daemon_running (lines 21-25).
Sigterm(d) ==
    IF daemons[d].pc \in {"forked", "started"} THEN Remove(daemons, d)
    ELSE [daemons EXCEPT ![d].g_daemon_running = FALSE]

\* The command's function has returned ret; restart goes on to the start
\* whatever daemon_stop returned (daemon.c:116).
Returned(pr, ret) ==
    IF pr.cmd = "restart" /\ pr.pc \in {"dm_stop", "dm_kill", "dm_poll", "dm_sigkill"}
    THEN [pr EXCEPT !.pc = "dm_start"]
    ELSE [pr EXCEPT !.pc = "dm_done", !.ret = ret]

\* frac daemon start | stop | status | restart (daemon.c:25-167): a process
\* is started for the command. seen keeps the daemon processes that were
\* running at that moment.
cmd_daemon(p) ==
    /\ proc[p].pc = "idle"
    /\ nextPid <= MaxDaemonCmds
    /\ \E c \in {"start", "stop", "status", "restart"} :
          proc' = [proc EXCEPT ![p] =
                     [IdleProc EXCEPT
                        !.pid = nextPid, !.cmd = c, !.seen = DOMAIN daemons,
                        !.pc = IF c = "start" THEN "dm_start"
                               ELSE IF c = "status" THEN "dm_status"
                               ELSE "dm_stop"]]
    /\ nextPid' = nextPid + 1
    /\ UNCHANGED <<disk, rest, clock, nextId, faults, crashes, edits>>

\* daemon_start_background, lines 163-175: a pid file naming a running
\* process ends the command with -1; a stale pid file is unlinked.
daemon_start_check(p) ==
    /\ proc[p].pc = "dm_start"
    /\ IF daemon_is_process_running(read_pid_file)
       THEN /\ proc' = [proc EXCEPT ![p] = Returned(proc[p], -1)]
            /\ UNCHANGED pidFile
       ELSE /\ proc' = [proc EXCEPT ![p].pc = "dm_fork"]
            /\ pidFile' = 0
    /\ UNCHANGED <<disk, counters, HEAD, refs, origin, daemons, pool, build>>

\* daemon_start_background, lines 178-182 and 231-235: fork; the parent
\* prints "Daemon started successfully" and returns 0, or -1 when fork failed.
daemon_fork(p) ==
    /\ proc[p].pc = "dm_fork"
    /\ \/ /\ daemons' = (nextPid :> [pc |-> "forked", g_daemon_running |-> FALSE])
                          @@ daemons
          /\ nextPid' = nextPid + 1
          /\ proc' = [proc EXCEPT ![p] = Returned(proc[p], 0)]
          /\ UNCHANGED faults
       \/ /\ CanFail
          /\ faults' = faults + 1
          /\ proc' = [proc EXCEPT ![p] = Returned(proc[p], -1)]
          /\ UNCHANGED <<daemons, nextPid>>
    /\ UNCHANGED <<disk, clock, nextId, crashes, edits, HEAD, refs, origin,
                   pidFile, pool, build>>

\* The child, lines 184-223: setsid, chdir, the log file, then write_pid_file
\* (lines 53-64), whose failure ends the child with exit(1).
daemon_write_pid(d) ==
    /\ IsDaemon(d) /\ daemons[d].pc = "forked"
    /\ \/ /\ pidFile' = d
          /\ daemons' = [daemons EXCEPT ![d].pc = "started"]
          /\ UNCHANGED faults
       \/ /\ CanFail
          /\ faults' = faults + 1
          /\ daemons' = Remove(daemons, d)
          /\ UNCHANGED pidFile
    /\ UNCHANGED <<disk, clock, nextPid, nextId, crashes, edits, proc, HEAD, refs,
                   origin, pool, build>>

\* daemon_main_loop, lines 129-130: signal_handler is installed.
daemon_signal(d) ==
    /\ IsDaemon(d) /\ daemons[d].pc = "started"
    /\ daemons' = [daemons EXCEPT ![d].pc = "installed"]
    /\ UNCHANGED <<disk, counters, proc, HEAD, refs, origin, pidFile, pool, build>>

\* daemon_main_loop, line 132: g_daemon_running = 1.
daemon_main_loop(d) ==
    /\ IsDaemon(d) /\ daemons[d].pc = "installed"
    /\ daemons' = [daemons EXCEPT ![d].pc = "loop", ![d].g_daemon_running = TRUE]
    /\ UNCHANGED <<disk, counters, proc, HEAD, refs, origin, pidFile, pool, build>>

\* daemon_main_loop, line 144, and the end of the child (lines 229-230):
\* with the flag set the loop goes on to attempt_snapshot, with the flag
\* cleared the child unlinks daemon.pid and exits.
daemon_loop(d) ==
    /\ IsDaemon(d) /\ daemons[d].pc = "loop"
    /\ IF daemons[d].g_daemon_running
       THEN /\ daemons' = [daemons EXCEPT ![d].pc = "snapshot"]
            /\ UNCHANGED pidFile
       ELSE /\ daemons' = Remove(daemons, d)
            /\ pidFile' = 0
    /\ UNCHANGED <<disk, counters, proc, HEAD, refs, origin, pool, build>>

\* attempt_snapshot (lines 97-124): cmd_snapshot in the daemon's process. The
\* working tree has no files here, and a snapshot of such a tree leaves the
\* repository as it found it (SnapshotEmpty); the flag is not looked at until
\* cmd_snapshot has returned.
attempt_snapshot(d) ==
    /\ IsDaemon(d) /\ daemons[d].pc = "snapshot"
    /\ \A path \in DOMAIN tree : ~tree[path].present
    /\ daemons' = [daemons EXCEPT ![d].pc = "sleep"]
    /\ UNCHANGED <<disk, counters, proc, HEAD, refs, origin, pidFile, pool, build>>

\* daemon_main_loop, lines 148-153: the sleep is over, or the flag was
\* cleared.
daemon_sleep(d) ==
    /\ IsDaemon(d) /\ daemons[d].pc = "sleep"
    /\ daemons' = [daemons EXCEPT ![d].pc = "loop"]
    /\ UNCHANGED <<disk, counters, proc, HEAD, refs, origin, pidFile, pool, build>>

\* The daemon is killed from outside (kill -9, out of memory): daemon.pid
\* stays.
daemon_killed(d) ==
    /\ IsDaemon(d)
    /\ crashes < MaxCrashes
    /\ crashes' = crashes + 1
    /\ daemons' = Remove(daemons, d)
    /\ UNCHANGED <<disk, clock, nextPid, nextId, faults, edits, proc, HEAD, refs,
                   origin, pidFile, pool, build>>

\* daemon_stop, lines 245-255: no pid in the file, "No daemon running" and 0;
\* a pid that is not running, the file is unlinked and 0.
daemon_stop_check(p) ==
    /\ proc[p].pc = "dm_stop"
    /\ IF read_pid_file <= 0
       THEN /\ proc' = [proc EXCEPT ![p] = Returned(proc[p], 0)]
            /\ UNCHANGED pidFile
       ELSE IF ~daemon_is_process_running(read_pid_file)
       THEN /\ proc' = [proc EXCEPT ![p] = Returned(proc[p], 0)]
            /\ pidFile' = 0
       ELSE /\ proc' = [proc EXCEPT ![p].pc = "dm_kill", ![p].target = read_pid_file]
            /\ UNCHANGED pidFile
    /\ UNCHANGED <<disk, counters, HEAD, refs, origin, daemons, pool, build>>

\* daemon_stop, lines 260-263: kill(daemon_pid, SIGTERM); -1 when it fails.
daemon_stop_kill(p) ==
    /\ proc[p].pc = "dm_kill"
    /\ IF IsDaemon(proc[p].target)
       THEN /\ daemons' = Sigterm(proc[p].target)
            /\ proc' = [proc EXCEPT ![p].pc = "dm_poll", ![p].i = 0]
       ELSE /\ proc' = [proc EXCEPT ![p] = Returned(proc[p], -1)]
            /\ UNCHANGED daemons
    /\ UNCHANGED <<disk, counters, HEAD, refs, origin, pidFile, pool, build>>

\* daemon_stop, lines 266-272: one poll; the daemon is gone and the command
\* returns 0, or the command sleeps 100 ms.
daemon_stop_poll(p) ==
    /\ proc[p].pc = "dm_poll"
    /\ IF ~daemon_is_process_running(proc[p].target)
       THEN proc' = [proc EXCEPT ![p] = Returned(proc[p], 0)]
       ELSE IF proc[p].i + 1 < StopPolls
       THEN proc' = [proc EXCEPT ![p].i = proc[p].i + 1]
       ELSE proc' = [proc EXCEPT ![p].pc = "dm_sigkill"]
    /\ UNCHANGED <<disk, counters, rest>>

\* daemon_stop, lines 275-282: kill(daemon_pid, SIGKILL) and 0 at once, the
\* pid file left where it is; -1 when the kill fails.
daemon_stop_sigkill(p) ==
    /\ proc[p].pc = "dm_sigkill"
    /\ IF IsDaemon(proc[p].target)
       THEN /\ daemons' = Remove(daemons, proc[p].target)
            /\ proc' = [proc EXCEPT ![p] = Returned(proc[p], 0)]
       ELSE /\ proc' = [proc EXCEPT ![p] = Returned(proc[p], -1)]
            /\ UNCHANGED daemons
    /\ UNCHANGED <<disk, counters, HEAD, refs, origin, pidFile, pool, build>>

\* frac daemon status (daemon.c:98-110): what daemon_status says is printed.
cmd_daemon_status(p) ==
    /\ proc[p].pc = "dm_status"
    /\ proc' = [proc EXCEPT ![p].pc = "dm_done", ![p].ret = 0,
                            ![p].result = IF daemon_status = 1 THEN "running"
                                          ELSE "not running"]
    /\ UNCHANGED <<disk, counters, rest>>

\* cmd_daemon has returned: the process exits.
daemon_return(p) ==
    /\ proc[p].pc = "dm_done"
    /\ Exit(p)
    /\ UNCHANGED <<disk, counters, rest>>

\* The steps of frac daemon.
Daemon(p) ==
    \/ cmd_daemon(p)
    \/ daemon_start_check(p) \/ daemon_fork(p)
    \/ daemon_stop_check(p) \/ daemon_stop_kill(p) \/ daemon_stop_poll(p)
    \/ daemon_stop_sigkill(p)
    \/ cmd_daemon_status(p) \/ daemon_return(p)

\* The steps of the daemon process d.
DaemonProcess(d) ==
    \/ daemon_write_pid(d) \/ daemon_signal(d) \/ daemon_main_loop(d)
    \/ daemon_loop(d) \/ attempt_snapshot(d) \/ daemon_sleep(d)
    \/ daemon_killed(d)

\* The pids a behaviour of SpecDaemon can give to daemon processes.
DaemonPids == 2..(2 * MaxDaemonCmds)

\* frac daemon commands from two terminals and the daemons they start, on a
\* repository with an empty working tree.
NextDaemon ==
    \/ \E p \in Procs : Daemon(p)
    \/ \E d \in DaemonPids : DaemonProcess(d)

SpecDaemon == Init /\ [][NextDaemon]_vars

\* ------------------------- change detection on its own (snapshot.c:403-475)

\* Entries of the small indexes the detection is tried on; paths are numbered.
MaxEntries == 3

DetectPaths == 1..MaxEntries
DetectHashes == {hash_data(Blob(d)) : d \in Contents}

\* The indexes of at most MaxEntries entries with no path twice, in every order.
SmallIndexes ==
    {ix \in UNION {[1..n -> [path : DetectPaths, hash : DetectHashes, st : {0}]] :
                      n \in 0..MaxEntries} :
        \A i, j \in 1..Len(ix) : i # j => ix[i].path # ix[j].path}

\* The least number of entries at which the sampling fallback skips entries:
\* step = count / sample_size is 2.
LargeLen == 2 * SampleSize

\* The index a first scan makes of the files 1..LargeLen.
LargeIndex == [k \in 1..LargeLen |-> Entry(k, hash_data(Blob("x")), 0)]

\* The index the stat-only scan makes next when file 1 was removed and file
\* LargeLen + 1 created: the cached paths in their order, then the new file.
LargeShifted == [k \in 1..LargeLen |-> Entry(k + 1, hash_data(Blob("x")), 0)]

\* The index the scan makes next when file k was rewritten.
LargeModified(k) == [LargeIndex EXCEPT ![k].hash = hash_data(Blob("y"))]

\* Pairs <<previous index, new index>> the detection is tried on.
DetectInputs ==
    (SmallIndexes \X SmallIndexes)
    \cup {<<LargeIndex, LargeIndex>>, <<LargeIndex, LargeShifted>>,
          <<LargeIndex, LargeModified(1)>>, <<LargeIndex, LargeModified(LargeLen)>>}

\* cmd_snapshot stands at line 403 with the previous and the new index.
InitDetect ==
    /\ tree = [path \in Paths |-> NoFile]
    /\ objects = <<>>
    /\ snapshots = <<>>
    /\ CURRENT = 0
    /\ liveIndex = <<>>
    /\ cache = <<>>
    /\ lockFile = NoLock
    /\ clock = 1
    /\ nextPid = 1
    /\ nextId = 1
    /\ faults = 0
    /\ crashes = 0
    /\ edits = 0
    /\ HEAD = <<>>
    /\ refs = NoRefs
    /\ origin = <<>>
    /\ pidFile = 0
    /\ daemons = <<>>
    /\ pool = NoPool
    /\ build = "uuid"
    /\ \E in \in DetectInputs, hp \in BOOLEAN :
          /\ ~hp => in[1] = <<>>
          /\ proc = [p \in Procs |->
                       IF p = "p1"
                       THEN [IdleProc EXCEPT !.pc = "detect", !.cmd = "snapshot",
                                             !.has_prev = hp, !.prev = in[1],
                                             !.new_index = in[2]]
                       ELSE IdleProc]

\* cmd_snapshot, lines 403-475: changes_detected is computed.
detect(p) ==
    /\ proc[p].pc = "detect"
    /\ proc' = [proc EXCEPT
                  ![p].pc = "detected",
                  ![p].ret = ChangesDetected(proc[p].has_prev, proc[p].prev,
                                             proc[p].new_index)]
    /\ UNCHANGED <<disk, counters, rest>>

NextDetect == detect("p1")

SpecDetect == InitDetect /\ [][NextDetect]_vars

\* ================================================================ claims

\* What a snapshot record refers to: its index object and, when that object
\* loads as an index, the object of every entry.
Referenced(id) ==
    LET ih == snapshots[id].index_hash IN
    {ih} \cup (IF IndexLoads(ih)
               THEN {objects[ih].entries[k].hash : k \in 1..Len(objects[ih].entries)}
               ELSE {})

\* ------------------ the resolver on its own (snapshots.c, restore.c:20-207)

\* Strings the resolver looks into are sequences of characters. A snapshot id
\* is a UUID in text form, IdLen characters; the record of id k is the file
\* uuid[k].json of the branch's snapshots directory.
IdLen == 36
Pad(s) == s \o [i \in 1..(IdLen - Len(s)) |-> "0"]
uuid ==
    <<Pad(<<"a", "b", "c", "d", "1">>),
      Pad(<<"a", "b", "c", "d", "5">>),
      Pad(<<"f", "f", "f", "f", "0">>)>>

\* Records of one behaviour of SpecResolve, and their timestamps (seconds).
MaxRecords == Len(uuid)
MaxStamp == 2

\* strlen(prefix) < 4 (snapshots.c:107, restore.c:112).
MinPrefixLen == 4

\* strncmp(snapshot_id, prefix, prefix_len) == 0.
StartsWith(id, prefix) ==
    /\ Len(prefix) <= Len(id)
    /\ \A i \in 1..Len(prefix) : id[i] = prefix[i]

\* The decimal digits and their values.
Digits == <<"0", "1", "2", "3", "4", "5", "6", "7", "8", "9">>
IsDigit(c) == \E d \in 1..10 : Digits[d] = c
DigitValue(c) == (CHOOSE d \in 1..10 : Digits[d] = c) - 1

\* atoi: the value of the longest run of digits the string starts with.
RECURSIVE atoi_from(_, _, _)
atoi_from(str, i, acc) ==
    IF i > Len(str) \/ ~IsDigit(str[i]) THEN acc
    ELSE atoi_from(str, i + 1, 10 * acc + DigitValue(str[i]))
atoi(str) == atoi_from(str, 1, 0)

\* The orders readdir can return the record files in.
Enumerations ==
    LET files == DOMAIN snapshots
        n == Cardinality(files)
    IN {o \in [1..n -> files] : \A i, j \in 1..n : i # j => o[i] # o[j]}

\* get_chronological_snapshots, lines 38-59: the records that load, in the
\* order readdir returned them.
RECURSIVE Collected(_, _)
Collected(order, i) ==
    IF i > Len(order) THEN <<>>
    ELSE (IF snapshots[order[i]].ok THEN <<order[i]>> ELSE <<>>)
         \o Collected(order, i + 1)

\* get_chronological_snapshots, lines 69-77: the exchange sort, newest first;
\* a pair is swapped only when the earlier one is strictly older.
RECURSIVE SortInner(_, _, _)
SortInner(a, i, j) ==
    IF j > Len(a) THEN a
    ELSE IF snapshots[a[i]].timestamp < snapshots[a[j]].timestamp
    THEN SortInner([a EXCEPT ![i] = a[j], ![j] = a[i]], i, j + 1)
    ELSE SortInner(a, i, j + 1)

RECURSIVE SortOuter(_, _)
SortOuter(a, i) ==
    IF i >= Len(a) THEN a ELSE SortOuter(SortInner(a, i, i + 1), i + 1)

\* get_chronological_snapshots (snapshots.c:13-87, restore.c:20-94): no
\* records when opendir fails.
get_chronological_snapshots(order, opened) ==
    IF opened THEN SortOuter(Collected(order, 1), 1) ELSE <<>>

\* What a resolver returns: the code and, on FRACTYL_OK, the id.
Resolved(id) == [result |-> "FRACTYL_OK", result_id |-> id]
Failed(code) == [result |-> code, result_id |-> <<>>]

\* resolve_relative_snapshot (snapshots.c:154-192, restore.c:169-207).
resolve_relative_snapshot(relative_spec, order, opened) ==
    IF Len(relative_spec) < 2 \/ relative_spec[1] # "-"
    THEN Failed("FRACTYL_ERROR_GENERIC")
    ELSE LET steps_back == atoi(SubSeq(relative_spec, 2, Len(relative_spec)))
             list == get_chronological_snapshots(order, opened)
         IN IF steps_back <= 0 THEN Failed("FRACTYL_ERROR_GENERIC")
            ELSE IF steps_back - 1 >= Len(list)
            THEN Failed("FRACTYL_ERROR_SNAPSHOT_NOT_FOUND")
            ELSE Resolved(uuid[list[steps_back]])

\* resolve_snapshot_prefix (snapshots.c:90-151, restore.c:99-165): opendir
\* comes first, then the length test, then the file names that start with
\* the prefix are counted. impl names the copy: the one of restore.c
\* returns FRACTYL_ERROR_IO when opendir fails.
resolve_snapshot_prefix(prefix, opened, impl) ==
    LET matches == {k \in DOMAIN snapshots : StartsWith(uuid[k], prefix)} IN
    IF ~opened
    THEN Failed(IF impl = "restore.c" THEN "FRACTYL_ERROR_IO"
                ELSE "FRACTYL_ERROR_GENERIC")
    ELSE IF Len(prefix) < MinPrefixLen THEN Failed("FRACTYL_ERROR_GENERIC")
    ELSE IF matches = {} THEN Failed("FRACTYL_ERROR_SNAPSHOT_NOT_FOUND")
    ELSE IF Cardinality(matches) = 1
    THEN Resolved(uuid[CHOOSE k \in matches : TRUE])
    ELSE Failed("FRACTYL_ERROR_GENERIC")

\* is_full_snapshot_id (snapshots.c:195-209).
HexOrDash ==
    {Digits[d] : d \in 1..10}
        \cup {"a", "b", "c", "d", "e", "f", "A", "B", "C", "D", "E", "F", "-"}
is_full_snapshot_id(input) ==
    /\ Len(input) \in {64, 36}
    /\ \A i \in 1..Len(input) : input[i] \in HexOrDash

\* resolve_snapshot_id (snapshots.c:212-230), and the resolution at the head
\* of cmd_restore (restore.c:244-258), which tries the relative form and
\* then, whatever made it fail, the prefix form.
resolve_snapshot_id(input, order, opened, impl) ==
    IF impl = "restore.c"
    THEN LET r == resolve_relative_snapshot(input, order, opened) IN
         IF r.result = "FRACTYL_OK" THEN r
         ELSE resolve_snapshot_prefix(input, opened, impl)
    ELSE IF Len(input) > 0 /\ input[1] = "-"
    THEN resolve_relative_snapshot(input, order, opened)
    ELSE IF is_full_snapshot_id(input) THEN Resolved(input)
    ELSE resolve_snapshot_prefix(input, opened, impl)

\* The text of the relative reference to the N-th newest record.
RECURSIVE Decimal(_)
Decimal(n) ==
    IF n < 10 THEN <<Digits[n + 1]>>
    ELSE Decimal(n \div 10) \o <<Digits[(n % 10) + 1]>>
MaxBack == 4
Relative(n) == <<"-">> \o Decimal(n)

\* The references tried: relative ones (one of them of two digits), the
\* prefixes of three to five characters of the ids, a prefix of no id, a
\* whole id.
References ==
    {Relative(n) : n \in 1..MaxBack} \cup {Relative(12), <<"-">>, <<"-", "0">>}
        \cup {SubSeq(uuid[k], 1, n) : k \in 1..MaxRecords, n \in 3..5}
        \cup {<<"a", "b", "c", "e">>, <<"a", "b", "e">>}
        \cup {uuid[k] : k \in 1..MaxRecords}

\* Record files of a branch: any of the three ids, each with a timestamp,
\* loadable or not. With no record file the directory may never have been
\* made (it is made with the first record, snapshot.c:607).
InitResolve ==
    /\ tree = [path \in Paths |-> NoFile]
    /\ objects = <<>>
    /\ \E files \in SUBSET (1..MaxRecords), stamp \in [1..MaxRecords -> 0..MaxStamp] :
          snapshots = [k \in files |-> IF stamp[k] = 0 THEN BadRecord
                                       ELSE Record(k, 0, stamp[k], NoHash)]
    /\ CURRENT = 0
    /\ liveIndex = <<>>
    /\ cache = <<>>
    /\ lockFile = NoLock
    /\ clock = 1
    /\ nextPid = 1
    /\ nextId = 1
    /\ faults = 0
    /\ crashes = 0
    /\ edits = 0
    /\ HEAD = <<>>
    /\ refs = NoRefs
    /\ origin = <<>>
    /\ pidFile = 0
    /\ daemons = <<>>
    /\ pool = NoPool
    /\ build = "uuid"
    /\ proc = [p \in Procs |-> IF p = "p1" THEN [IdleProc EXCEPT !.pc = "resolve"]
                                ELSE IdleProc]

\* One resolution: the reference the user typed, the order readdir returns
\* the files in, and whether opendir succeeds.
resolve(p, impl) ==
    /\ proc[p].pc = "resolve"
    /\ \E input \in References, order \in Enumerations,
          opened \in (IF snapshots = <<>> THEN BOOLEAN ELSE {TRUE}) :
          LET r == resolve_snapshot_id(input, order, opened, impl) IN
          proc' = [proc EXCEPT ![p].pc = "resolved", ![p].cmd = impl,
                               ![p].input = input, ![p].opened = opened,
                               ![p].result = r.result, ![p].result_id = r.result_id]
    /\ UNCHANGED <<disk, counters, rest>>

\* The command has ended; the next one resolves a reference again.
resolve_return(p) ==
    /\ proc[p].pc = "resolved"
    /\ proc' = [proc EXCEPT ![p] = [IdleProc EXCEPT !.pc = "resolve"]]
    /\ UNCHANGED <<disk, counters, rest>>

NextResolve ==
    \/ resolve("p1", "snapshots.c")
    \/ resolve("p1", "restore.c")
    \/ resolve_return("p1")

SpecResolve == InitResolve /\ [][NextResolve]_vars

\* ---------------------------------------------------------------- C1
\* C1: two processes that fractyl_lock_wait_acquire let in are never inside
\* their held intervals (from its return to fractyl_lock_release) at once,
\* whether the lock was free or recovered from a stale file.
C1_WritersExclude ==
    \A p, q \in Procs : p # q => ~(Holding(p) /\ Holding(q))

\* ---------------------------------------------------------------- C2
\* The positions of cmd_restore from which its next step writes a tree file,
\* the live index or CURRENT.
RestoreWritePcs == {"rs_file", "rs_cur_open", "rs_cur_write"}

\* C2: a restore that is about to write a tree file, the live index or
\* CURRENT holds the repository lock: the lock file exists and names it.
C2_RestoreUnderLock ==
    \A p \in Procs :
        proc[p].pc \in RestoreWritePcs =>
            lockFile.ino # 0 /\ lockFile.pid = proc[p].pid

\* ---------------------------------------------------------------- C3
\* C3: once the commands have ended, CURRENT, when it holds an id, names a
\* snapshot record that exists.
C3_CurrentNamesRecord ==
    (Quiet /\ CURRENT > 0) => CURRENT \in DOMAIN snapshots

\* ---------------------------------------------------------------- C4
\* C4: the parent in the record a commit has written is the snapshot CURRENT
\* named when the commit started (none when CURRENT named none).
C4_ParentIsCurrent ==
    \A p \in Procs :
        (proc[p].wrote_rec /\ proc[p].pc \in {"cur_open", "cur_write"}) =>
            /\ proc[p].id \in DOMAIN snapshots
            /\ snapshots[proc[p].id].parent = proc[p].current_snapshot_id

\* ---------------------------------------------------------------- C5
\* The place of a kind of file in the order of a commit's writes.
Rank(kind) ==
    IF kind = "obj" THEN 1 ELSE IF kind = "idx" THEN 2
    ELSE IF kind = "rec" THEN 3 ELSE 4

\* C5: within one commit the file-body objects are written before the index
\* object, the index object before the snapshot record, and the record
\* before CURRENT.
C5_WriteOrder ==
    \A p \in Procs :
        \A i, j \in 1..Len(proc[p].wlog) :
            i < j => Rank(proc[p].wlog[i]) < Rank(proc[p].wlog[j])

\* A commit that wrote a file object, the index object, the record and
\* CURRENT has returned.
C5_Witness ==
    \E p \in Procs :
        /\ proc[p].pc = "return"
        /\ proc[p].wrote_cur
        /\ proc[p].wlog = <<"obj", "idx", "rec", "cur">>

\* ---------------------------------------------------------------- C6
\* C6: a cmd_snapshot that found changes returns 0 only when it wrote both
\* the record and CURRENT, and when it returns an error it has not written
\* CURRENT.
C6_SuccessMeansCommitted ==
    \A p \in Procs :
        proc[p].pc = "return" =>
            /\ (proc[p].ret = 0 /\ proc[p].id # 0) =>
                   (proc[p].wrote_rec /\ proc[p].wrote_cur)
            /\ proc[p].ret # 0 => ~proc[p].wrote_cur

\* ---------------------------------------------------------------- C7
\* C7: the parent named by a snapshot record is a snapshot record that
\* exists.
C7_ParentExists ==
    \A id \in DOMAIN snapshots :
        (snapshots[id].ok /\ snapshots[id].parent # 0) =>
            snapshots[id].parent \in DOMAIN snapshots

\* ---------------------------------------------------------------- C8
\* C8: the index object of every snapshot record exists, and so does the
\* object of every entry of that index.
C8_ReferencesExist ==
    \A id \in DOMAIN snapshots :
        snapshots[id].ok => Referenced(id) \subseteq DOMAIN objects

\* ---------------------------------------------------------------- C9
\* C9: every object a snapshot record refers to holds the bytes its key is
\* the digest of, also when an earlier writer was killed while writing it.
C9_ObjectsMatchKeys ==
    \A id \in DOMAIN snapshots :
        snapshots[id].ok =>
            \A key \in Referenced(id) \cap DOMAIN objects :
                hash_data(objects[key]) = key

\* ---------------------------------------------------------------- C10
\* The positions of a commit before its write of CURRENT.
PreCurrentPcs ==
    {"scan_begin", "os_hash", "os_open", "os_write", "scan_walk",
     "save_index", "new_snapshot", "write_record"}

\* The object file of key holds the bytes key is the digest of.
Intact(key) == key \in DOMAIN objects /\ hash_data(objects[key]) = key

\* The snapshot CURRENT names: its record and those of the objects the record
\* refers to that are whole.
CurrentSnapshot ==
    IF CURRENT > 0 /\ Loadable(CURRENT)
    THEN [record |-> snapshots[CURRENT],
          whole |-> {key \in Referenced(CURRENT) : Intact(key)}]
    ELSE [record |-> BadRecord, whole |-> {}]

\* C10: a step of a commit that has not come to its write of CURRENT, the
\* kill of the process included, leaves CURRENT naming the same snapshot,
\* that snapshot's record as it was, and every whole object of its index and
\* files whole.
C10_CrashKeepsCurrent ==
    [][\A p \in Procs :
          (proc[p].pc \in PreCurrentPcs /\ proc'[p] # proc[p]) =>
              /\ CURRENT' = CURRENT
              /\ CurrentSnapshot'.record = CurrentSnapshot.record
              /\ CurrentSnapshot.whole \subseteq CurrentSnapshot'.whole]_vars

\* ---------------------------------------------------------------- C11
\* C11: the CURRENT file is never empty: whoever reads it, at any moment and
\* after a writer was killed, finds the id it held before the update or the
\* id of the update (or no file, before the first commit).
C11_CurrentNeverEmpty == CURRENT # -1

\* ---------------------------------------------------------------- C12
\* The (path, digest) pairs of the regular files of the working tree.
TreePairs ==
    {<<path, hash_file(tree[path])>> : path \in {q \in DOMAIN tree : tree[q].present}}

\* The (path, digest) pairs of an index.
IndexPairs(ix) == {<<ix[k].path, ix[k].hash>> : k \in 1..Len(ix)}

\* The kinds of file a commit writes after it has found changes.
CommitKinds == {"idx", "rec", "cur"}

\* C12: when the scan of cmd_snapshot ends on a working tree whose (path,
\* digest) pairs are those of the index of the snapshot CURRENT names, the
\* command goes on to return 0 with no id drawn, and it has written and writes
\* no index object, no snapshot record and nothing to CURRENT.
C12_NoChangeNoCommit ==
    [][\A p \in Procs :
          /\ ( /\ proc[p].pc = "scan_walk"
               /\ proc'[p].pc \in {"rl_read", "save_index"}
               /\ proc[p].has_prev
               /\ TreePairs = IndexPairs(proc[p].prev) ) =>
                 /\ proc'[p].pc = "rl_read"
                 /\ proc'[p].ret = 0
                 /\ proc'[p].id = 0
                 /\ UNCHANGED <<objects, snapshots, CURRENT>>
          /\ ( /\ proc[p].pc \in {"rl_read", "rl_unlink"}
               /\ proc[p].id = 0
               /\ proc'[p].pc # "idle" ) =>
                 /\ proc'[p].ret = proc[p].ret
                 /\ \A k \in 1..Len(proc'[p].wlog) : proc'[p].wlog[k] \notin CommitKinds
                 /\ UNCHANGED <<objects, snapshots, CURRENT>>]_vars

\* A snapshot command has returned 0 without an id on a tree that has a file
\* and whose pairs are those of the index of the snapshot CURRENT names.
C12_Witness ==
    \E p \in Procs :
        /\ proc[p].pc = "return"
        /\ proc[p].cmd = "snapshot"
        /\ proc[p].ret = 0
        /\ proc[p].id = 0
        /\ CURRENT > 0
        /\ Loadable(CURRENT)
        /\ IndexLoads(snapshots[CURRENT].index_hash)
        /\ TreePairs = IndexPairs(objects[snapshots[CURRENT].index_hash].entries)
        /\ TreePairs # {}

\* ---------------------------------------------------------------- C13
\* C13: when the new index and the previous index differ in a path or a
\* digest, changes_detected is not 0 (no changes is not declared), whatever
\* the order of the entries.
C13_DifferenceDetected ==
    \A p \in Procs :
        ( /\ proc[p].pc = "detected"
          /\ proc[p].has_prev
          /\ IndexPairs(proc[p].new_index) # IndexPairs(proc[p].prev) ) =>
            proc[p].ret # 0

\* ---------------------------------------------------------------- C14
\* The step of process p is the return of cmd_restore with 0: the last write
\* of CURRENT (restore.c:404-419).
RestoreReturns(p) ==
    proc[p].pc = "rs_cur_write" /\ proc'[p].pc # "rs_cur_write"

\* C14: when restore of snapshot R returns success, every path of R's index
\* is a file of the working tree whose bytes are those of the object the
\* entry's digest names.
C14_RestoreWritesIndex ==
    [][\A p \in Procs :
          RestoreReturns(p) =>
              \A k \in 1..Len(proc[p].new_index) :
                  LET e == proc[p].new_index[k] IN
                  /\ tree'[e.path].present
                  /\ hash_file(tree'[e.path]) = e.hash]_vars

\* ---------------------------------------------------------------- C15
\* C15: when restore of snapshot R returns, the working tree has no regular
\* file at a path that R's index does not have.
C15_RestoreRemovesExtra ==
    [][\A p \in Procs :
          RestoreReturns(p) =>
              \A path \in DOMAIN tree :
                  tree'[path].present =>
                      \E k \in 1..Len(proc[p].new_index) :
                          proc[p].new_index[k].path = path]_vars

\* ---------------------------------------------------------------- C16
\* The working tree differs from the snapshot CURRENT names.
TreeDiffersFromCurrent ==
    /\ CURRENT > 0
    /\ Loadable(CURRENT)
    /\ IndexLoads(snapshots[CURRENT].index_hash)
    /\ TreePairs # IndexPairs(objects[snapshots[CURRENT].index_hash].entries)

\* C16: a restore invoked while the working tree differs from the snapshot
\* CURRENT names calls cmd_snapshot for the safety snapshot before it writes
\* a file, whatever its target.
C16_SafetySnapshotFirst ==
    [][\A p \in Procs :
          ( /\ proc[p].pc = "rs_resolve"
            /\ proc'[p].pc \notin {"rs_resolve", "idle"}
            /\ TreeDiffersFromCurrent ) =>
              (proc'[p].pc = "lk_open" /\ proc'[p].caller = "restore")]_vars

\* ---------------------------------------------------------------- C17
\* C17: the snapshot run right after a restore of R that returned success
\* writes no snapshot record, or one whose index digest is that of R.
C17_RestoreRoundTrip ==
    \A p \in Procs :
        ( /\ proc[p].cmd = "roundtrip"
          /\ proc[p].caller = "main"
          /\ proc[p].wrote_rec ) =>
            /\ proc[p].id \in DOMAIN snapshots
            /\ snapshots[proc[p].id].index_hash = proc[p].target_hash

\* ---------------------------------------------------------------- C18
\* The scan of process p is over: the stat pass and the walk for new files
\* are done and new_index is what scan_directory_stat_only returns.
ScanDone(p) == proc[p].pc = "scan_walk" /\ Unseen(p) = {}

\* The paths of an index.
IndexPaths(ix) == {ix[k].path : k \in 1..Len(ix)}

\* C18: when no I/O call has failed, the new index of a finished scan has an
\* entry for every path that is a regular file and is not ignored, whether
\* the stat cache was empty or not.
C18_ScanFindsFiles ==
    \A p \in Procs :
        (ScanDone(p) /\ faults = 0) =>
            \A path \in DOMAIN tree :
                (tree[path].present /\ ~tree[path].ignored) =>
                    path \in IndexPaths(proc[p].new_index)

\* A scan that began with a stat cache holding one path has ended with two
\* entries: one for the cached path and one for a file the walk found.
C18_Witness ==
    \E p \in Procs :
        /\ ScanDone(p)
        /\ faults = 0
        /\ Len(cache) = 1
        /\ IndexPaths(proc[p].new_index) = DOMAIN tree
        /\ \A path \in DOMAIN tree : tree[path].present /\ ~tree[path].ignored

\* ---------------------------------------------------------------- C19
\* C19: every entry of the new index of a finished scan names a path that is
\* a regular file and is not ignored.
C19_ScanEntriesCurrent ==
    \A p \in Procs :
        ScanDone(p) =>
            \A path \in IndexPaths(proc[p].new_index) :
                tree[path].present /\ ~tree[path].ignored

\* ---------------------------------------------------------------- C20
\* No two entries of the index have the same path.
UniquePaths(ix) == \A i, j \in 1..Len(ix) : i # j => ix[i].path # ix[j].path

\* C20: the index of every snapshot record, and the new index of every scan
\* as far as it has come, has no path twice.
C20_PathsUnique ==
    /\ \A id \in DOMAIN snapshots :
          (snapshots[id].ok /\ IndexLoads(snapshots[id].index_hash)) =>
              UniquePaths(objects[snapshots[id].index_hash].entries)
    /\ \A p \in Procs : UniquePaths(proc[p].new_index)

\* A snapshot of two files was committed after a snapshot of one: its scan
\* took one path from the stat cache and found the other in the walk.
C20_Witness ==
    \E id, older \in DOMAIN snapshots :
        /\ Loadable(id) /\ Loadable(older)
        /\ snapshots[id].parent = older
        /\ IndexLoads(snapshots[id].index_hash)
        /\ IndexLoads(snapshots[older].index_hash)
        /\ Len(objects[snapshots[older].index_hash].entries) = 1
        /\ Len(objects[snapshots[id].index_hash].entries) = 2
        /\ CURRENT = id

\* ---------------------------------------------------------------- C21
\* The paths that lie in a directory holding a .git entry.
Foreign == {path \in DOMAIN tree : tree[path].git}

\* C21: the new index of a finished scan has no entry for a path in a
\* directory that holds a .git entry, and no step of a scan adds the body of
\* a file from such a directory to the object store.
C21_NoForeignFiles ==
    [][\A p \in Procs :
          /\ ScanDone(p)' => IndexPaths(proc[p].new_index)' \cap Foreign' = {}
          /\ (proc[p].pc \in {"os_open", "os_write"} /\ objects' # objects) =>
                 proc[p].os_path \notin Foreign]_vars

\* ---------------------------------------------------------------- C22
\* C22: the new index of a finished scan has no entry for a file of more
\* than 1 GiB.
C22_NoLargeFiles ==
    \A p \in Procs :
        ScanDone(p) =>
            \A path \in IndexPaths(proc[p].new_index) : ~st_size_over_limit(path)

\* ---------------------------------------------------------------- C23
\* The records of the branch: the record files that load.
Records == {k \in DOMAIN snapshots : snapshots[k].ok}

\* Record k can stand at place n when the records are put in descending
\* order of timestamp: fewer than n records are newer, at least n are as new.
NthNewest(k, n) ==
    /\ k \in Records
    /\ Cardinality({x \in Records :
                       snapshots[x].timestamp > snapshots[k].timestamp}) < n
    /\ Cardinality({x \in Records :
                       snapshots[x].timestamp >= snapshots[k].timestamp}) >= n

\* C23: a resolution of the reference -N, N >= 1, has returned the id of the
\* N-th record in descending order of timestamp when the branch has N
\* records, and has failed with not-found when it has fewer.
C23_RelativeIsNth ==
    \A p \in Procs, n \in (1..MaxBack) \cup {12} :
        (proc[p].pc = "resolved" /\ proc[p].input = Relative(n)) =>
            IF n <= Cardinality(Records)
            THEN /\ proc[p].result = "FRACTYL_OK"
                 /\ \E k \in Records :
                       NthNewest(k, n) /\ proc[p].result_id = uuid[k]
            ELSE proc[p].result = "FRACTYL_ERROR_SNAPSHOT_NOT_FOUND"

\* ---------------------------------------------------------------- C24
\* The error kind a caller reads from a resolver's return code, as cmd_restore
\* does (restore.c:248-253): the generic code stands for too short when the
\* reference has fewer than four characters and for ambiguous otherwise.
ErrorKind(result, input) ==
    IF result = "FRACTYL_ERROR_SNAPSHOT_NOT_FOUND" THEN "NotFound"
    ELSE IF result = "FRACTYL_ERROR_GENERIC"
    THEN (IF Len(input) < MinPrefixLen THEN "TooShort" ELSE "Ambiguous")
    ELSE "IoError"

\* The record files whose id begins with the reference.
Matches(input) == {k \in DOMAIN snapshots : StartsWith(uuid[k], input)}

\* C24: a resolution of a reference that is neither relative nor a full id
\* has succeeded exactly when the reference has four characters or more and
\* one record id begins with it, and has then returned that id; otherwise it
\* has failed with too short, ambiguous or not found, as the case is.
C24_PrefixResolution ==
    \A p \in Procs :
        ( /\ proc[p].pc = "resolved"
          /\ proc[p].input[1] # "-"
          /\ ~is_full_snapshot_id(proc[p].input) ) =>
            LET input == proc[p].input
                unique == Len(input) >= MinPrefixLen /\ Cardinality(Matches(input)) = 1
            IN /\ (proc[p].result = "FRACTYL_OK") <=> unique
               /\ unique => \E k \in Matches(input) : proc[p].result_id = uuid[k]
               /\ ~unique =>
                     ErrorKind(proc[p].result, input) =
                         IF Len(input) < MinPrefixLen THEN "TooShort"
                         ELSE IF Cardinality(Matches(input)) >= 2 THEN "Ambiguous"
                         ELSE "NotFound"

\* ---------------------------------------------------------------- C25
\* C25: what a resolution has returned is what it returns for the same
\* reference and the same record files in every order readdir can give.
C25_ResolveDeterministic ==
    \A p \in Procs :
        proc[p].pc = "resolved" =>
            \A order \in Enumerations :
                resolve_snapshot_id(proc[p].input, order, proc[p].opened, proc[p].cmd)
                    = [result |-> proc[p].result, result_id |-> proc[p].result_id]

\* ---------------------------------------------------------------- C26
\* C26: a step of cmd_delete removes at most the one record file it resolved
\* and leaves every object file and every other record as it was.
C26_DeleteFrame ==
    [][\A p \in Procs :
          (proc[p].pc = "dl_resolve" /\ proc'[p].pc # "dl_resolve") =>
              /\ objects' = objects
              /\ \/ snapshots' = snapshots
                 \/ \E id \in DOMAIN snapshots : snapshots' = Remove(snapshots, id)]_vars

\* The record CURRENT names has been deleted; an older record and the
\* objects of the store are still there.
C26_Witness ==
    /\ CURRENT > 0
    /\ CURRENT \notin DOMAIN snapshots
    /\ \E id \in DOMAIN snapshots :
          /\ Loadable(id)
          /\ IndexLoads(snapshots[id].index_hash)
    /\ Cardinality(DOMAIN objects) >= 3
    /\ Quiet

\* ---------------------------------------------------------------- C27
\* The positions inside fractyl_lock_wait_acquire.
WaitPcs == {"lk_open", "lk_write", "lk_read", "lk_unlink", "lk_retry", "lk_check"}

\* C27: a process that has entered fractyl_lock_wait_acquire leaves it, with
\* the lock or with failure, whatever the lock file holds and whatever the
\* other process does.
C27_WaitAcquireReturns ==
    \A p \in Procs : (proc[p].pc \in WaitPcs) ~> (proc[p].pc \notin WaitPcs)

\* ---------------------------------------------------------------- C28
\* The lock file records the pid of a process that no longer runs.
StaleLock ==
    /\ lockFile.ino > 0
    /\ lockFile.pid > 0
    /\ ~is_process_running(lockFile.pid)

\* Process p has the lock: the lock file is the one it made, with its pid.
Acquired(p) ==
    /\ proc[p].pc = "scan_begin"
    /\ lockFile = [ino |-> proc[p].pid, pid |-> proc[p].pid]

\* C28: a writer that starts while the lock file is stale comes to hold the
\* lock, with the stale file removed and its own in place, and, unless it
\* is killed, its cmd_snapshot then returns.
C28_StaleLockRecovered ==
    \A p \in Procs :
        /\ (proc[p].pc = "lk_open" /\ StaleLock /\ crashes = MaxCrashes)
               ~> Acquired(p)
        /\ (Acquired(p) /\ crashes = MaxCrashes) ~> (proc[p].pc = "return")

\* A writer has found the lock of a killed writer stale and has removed it.
C28_Witness ==
    \E p \in Procs :
        /\ proc[p].pc = "lk_retry"
        /\ lockFile = NoLock
        /\ crashes = MaxCrashes
        /\ proc[p].pid > 1

\* ---------------------------------------------------------------- C29
\* The step of process p is the unlink of fractyl_lock_release (lock.c:103).
ReleaseUnlinks(p) == proc[p].pc = "rl_unlink" /\ proc'[p].pc = "return"

\* C29: a lock file that a release unlinks records the releasing process's
\* pid and is the file that process made; a lock file that another owner has
\* put in its place is left where it is.
C29_ReleaseOnlyOwn ==
    [][\A p \in Procs :
          (ReleaseUnlinks(p) /\ lockFile.ino # 0) =>
              /\ lockFile.pid = proc[p].pid
              /\ lockFile.ino = proc[p].pid]_vars

\* ---------------------------------------------------------------- C30
\* The positions inside fractyl_lock_release.
ReleasePcs == {"rl_read", "rl_unlink"}

\* C30: a process that holds the lock leaves cmd_snapshot's body only into
\* fractyl_lock_release (or by being killed), whatever the outcome of the
\* snapshot, and when the release is over and the command returns, the lock
\* file that process made is gone: there is no lock file, or the file is one
\* another writer has made since.
C30_EveryReturnReleases ==
    [][\A p \in Procs :
          /\ (Holding(p) /\ ~Holding(p)') => proc'[p].pc \in ReleasePcs \cup {"idle"}
          /\ (proc[p].pc \in ReleasePcs /\ proc'[p].pc = "return") =>
                 lockFile'.ino # proc[p].pid]_vars

\* A snapshot command has returned 1 after an I/O failure, its lock released.
C30_Witness ==
    \E p \in Procs :
        /\ proc[p].pc = "return"
        /\ proc[p].ret = 1
        /\ faults > 0
        /\ proc[p].wlog # <<>>
        /\ lockFile = NoLock

\* ---------------------------------------------------------------- C31
\* The snapshot commits made: the records written (no record is deleted in
\* the behaviours the claim is checked on).
Commits == {id \in DOMAIN snapshots : snapshots[id].ok}

\* The keys of the bodies of S, the set the file bodies are drawn from.
BodyKeys == {hash_data(Blob(d)) : d \in Contents}

\* The object store holds at most one object per body of S and one per commit.
Deduplicated ==
    Cardinality(DOMAIN objects) <= Cardinality(Contents) + Cardinality(Commits)

\* C31 as stated: after N snapshot commits of working trees whose bodies are
\* drawn from S the object store holds at most |S| + N objects.
C31_Dedup == Quiet => Deduplicated

\* C31, amended: when no snapshot attempt has failed or been killed, every
\* object of the store is the object of a body of S or the index object of a
\* commit (or of the commit in progress), so that after N commits the store
\* holds at most |S| + N objects.
C31_DedupNoFailure ==
    (faults = 0 /\ crashes = 0) =>
        /\ \A key \in DOMAIN objects :
              \/ key \in BodyKeys
              \/ \E id \in Commits : snapshots[id].index_hash = key
              \/ \E p \in Procs :
                    proc[p].pc \in {"os_write", "write_record"} /\ proc[p].os_key = key
        /\ Quiet => Deduplicated

\* Two commits of a tree that held each body of S in turn: the store holds
\* |S| + 2 objects.
C31_Witness ==
    /\ Quiet
    /\ faults = 0
    /\ crashes = 0
    /\ Cardinality(Commits) = 2
    /\ Cardinality(DOMAIN objects) = Cardinality(Contents) + 2

\* ---------------------------------------------------------------- C32
\* The ids in a sequence.
Range(seq) == {seq[k] : k \in 1..Len(seq)}

\* C32: what list has printed is every snapshot record of the active branch,
\* whatever the timestamps of the records and whether or not the record a
\* record names as its parent still exists.
C32_ListShowsAll ==
    \A p \in Procs :
        proc[p].pc = "listed" => Range(proc[p].result_id) = Commits

\* ---------------------------------------------------------------- C33
\* The branch the record id was committed on: the one checked out, unless a
\* switch of branches has noted another.
Origin(id) == IF id \in DOMAIN origin THEN origin[id] ELSE HEAD

\* The record id was committed on a branch other than the one checked out.
OtherBranch(id) == HEAD # <<>> /\ Origin(id) # <<>> /\ Origin(id) # HEAD

\* C33: while a branch is checked out, no record committed on another branch
\* is among those list has printed or those a resolution (here that of
\* delete) chooses from, and none is the prior snapshot or the parent of a
\* commit in progress.
C33_BranchesDisjoint ==
    \A p \in Procs :
        /\ proc[p].pc = "listed" =>
               \A id \in Range(proc[p].result_id) : ~OtherBranch(id)
        /\ proc[p].pc = "dl_resolve" =>
               \A id \in Commits : ~OtherBranch(id)
        /\ proc[p].current_snapshot_id # 0 => ~OtherBranch(proc[p].current_snapshot_id)
        /\ proc[p].parent # 0 => ~OtherBranch(proc[p].parent)

\* ---------------------------------------------------------------- C34

\* C34: when frac daemon stop has returned 0 and a daemon of the repository
\* was running as the command began, no daemon process of the repository is
\* running and daemon_status says 0 (frac daemon status prints "Daemon is not
\* running").
C34_StopStops ==
    \A p \in Procs :
        (proc[p].pc = "dm_done" /\ proc[p].cmd = "stop" /\ proc[p].ret = 0
         /\ proc[p].seen # {})
            => (DOMAIN daemons = {} /\ daemon_status = 0)

\* ---------------------------------------------------------------- C39

\* C39: at no time do two daemon processes of the repository run.
C39_OneDaemon == Cardinality(DOMAIN daemons) <= 1

\* ---------------------------------------------------------------- C35
\* The entries of the previous index (the index of the snapshot CURRENT
\* names) whose file has been modified since: it is a regular file with
\* another stat signature and another digest.
Modified(pr) ==
    {k \in 1..Len(pr.prev) :
        LET f == tree[pr.prev[k].path] IN
        f.present /\ f.st # pr.prev[k].st /\ hash_file(f) # pr.prev[k].hash}

\* The step of process p ends the scan of cmd_snapshot: scan_save, after
\* which the command either returns "no changes" or goes on to commit.
ScanEnds(p) ==
    proc[p].pc = "scan_walk" /\ proc'[p].pc \in {"rl_read", "save_index"}

\* C35: when a scan ends on a working tree with files modified since the
\* snapshot CURRENT names, whatever became of earlier snapshot attempts (they
\* may have been killed at any point), and no I/O call has failed, the
\* command goes on to commit, and the new index carries for each of these
\* files the digest of its current content.
C35_RetryCommits ==
    [][\A p \in Procs :
          (ScanEnds(p) /\ faults = 0 /\ proc[p].has_prev /\ Modified(proc[p]) # {}) =>
              /\ proc'[p].pc = "save_index"
              /\ \A k \in Modified(proc[p]) :
                    LET path == proc[p].prev[k].path IN
                    <<path, hash_file(tree[path])>> \in IndexPairs(proc[p].new_index)]_vars

\* ---------------------------------------------------------------- C36
\* The step of process p is the unlink of fractyl_lock_acquire (lock.c:71)
\* and there is a lock file for it to remove.
AcquireUnlinks(p) ==
    proc[p].pc = "lk_unlink" /\ proc'[p].pc = "lk_retry" /\ lockFile.ino # 0

\* C36: when fractyl_lock_acquire unlinks a lock file, the process that
\* created that file is no longer running, whether or not it had written its
\* pid into the file.
C36_UnlinkOnlyStale ==
    [][\A p \in Procs : AcquireUnlinks(p) => ~is_process_running(lockFile.ino)]_vars

\* ---------------------------------------------------------------- C37

\* C37: the id cmd_snapshot generates is the id of no record in the branch's
\* directory, and the write of the record file replaces no record.
C37_FreshId ==
    [][\A p \in Procs :
          /\ (proc[p].pc = "new_snapshot" /\ proc'[p].pc = "os_hash") =>
                 proc'[p].id \notin DOMAIN snapshots
          /\ (proc[p].pc = "write_record" /\ snapshots' # snapshots) =>
                 proc[p].id \notin DOMAIN snapshots]_vars

\* ---------------------------------------------------------------- C38
\* Process p is inside fractyl_lock_wait_acquire: its timeout has not expired.
InWaitAcquire(p) == proc[p].pc \in WaitPcs \cup {"lk_sleep"}

\* Process q does not hold the lock and will not take it: it has released
\* it and returns, or it is gone.
Gone(q) == proc[q].pc \in {"return", "idle"}

\* Process p is in the sleep after its last poll.
LastSleep(p) == proc[p].pc = "lk_sleep" /\ proc[p].attempts + 1 >= MaxPolls

\* C38 as stated: a writer inside fractyl_lock_wait_acquire comes to hold the
\* lock when the other writer has released it or died, and no writer comes.
C38_WaiterAcquires ==
    \A p, q \in Procs :
        (p # q /\ InWaitAcquire(p) /\ Gone(q) /\ crashes = MaxCrashes)
            ~> (proc[p].pc = "scan_begin")

\* C38, amended: the same for a release or death that comes before the
\* waiter's last poll; one that comes during the sleep after the last poll
\* is not seen.
C38_WaiterAcquiresBeforeLastPoll ==
    \A p, q \in Procs :
        (p # q /\ InWaitAcquire(p) /\ ~LastSleep(p) /\ Gone(q) /\ crashes = MaxCrashes)
            ~> (proc[p].pc = "scan_begin")

\* A writer that has slept in the wait loop has created the lock file after
\* the other writer's release.
C38_Witness ==
    \E p, q \in Procs :
        /\ p # q
        /\ proc[p].pc = "lk_write"
        /\ proc[p].attempts >= 1
        /\ Gone(q)
        /\ crashes = MaxCrashes

\* ---------------------------------------------------------------- C40

\* C40: no directory is taken from the queue or processed more than once,
\* and when scan_directory_parallel has returned, every directory that was
\* enqueued has been dequeued and processed once, the queue is empty and
\* every worker thread has left its loop, whether or not the main thread's
\* waits ran out first.
C40_PoolDrained ==
    /\ \A dir \in PoolDirs : pool.deq[dir] <= pool.enq[dir] /\ pool.done[dir] <= pool.deq[dir]
                              /\ pool.enq[dir] <= 1
    /\ pool.main = "returned" =>
          /\ \A dir \in PoolDirs : pool.deq[dir] = pool.enq[dir]
                                    /\ pool.done[dir] = pool.enq[dir]
          /\ pool.queue = <<>>
          /\ \A w \in Workers : pool.worker[w].pc = "exited"

\* The scan has returned after the waits ran out with work left: directories
\* were taken from the queue after shutdown was set, and all four were
\* processed.
C40_Witness ==
    /\ pool.main = "returned"
    /\ pool.wait_count = MaxWait
    /\ pool.late
    /\ \A dir \in PoolDirs : pool.done[dir] = 1

====
